---------------------------- MODULE Spec2Model ----------------------------
(***************************************************************************)
(* Model of the ATS keyword pipeline of tanchaowen84/atsresumechecker:     *)
(*   - ATSScorer            (src/src/db/migrations/0002_faulty_ma_gnuci.sql *)
(*                           holds the TypeScript of the scorer)           *)
(*   - ESCOAPIClient        (src/src/lib/ats/keywords/esco-integration.ts) *)
(*   - EnhancedKeywordExtractor                                            *)
(*                          (src/src/lib/ats/keywords/enhanced-extractor.ts)*)
(*                                                                         *)
(* Strings are sequences of UTF-16 code units (naturals), so that          *)
(* toLowerCase, trim, includes and the default sort order are computed,    *)
(* not assumed.  JavaScript numbers are modelled as exact rationals        *)
(* [n |-> numerator, d |-> denominator > 0] in lowest terms.               *)
(***************************************************************************)
EXTENDS Integers, Sequences, FiniteSets, TLC

VARIABLES
    \* ---- ATSScorer ----
    weights,          \* this.weights of the ATSScorer instance
    jdKeywords,       \* calculateScore argument: ExtractedKeywords of the JD
    resumeKeywords,   \* calculateScore argument: ExtractedKeywords of the resume
    tfIdfWeights,     \* calculateScore argument: Map<string, number>
    escoValidated,    \* calculateScore argument: Set<string>
    scoreResult,      \* the ATSScoreCalculation returned, or NoResult
    \* ---- ESCOAPIClient ----
    cache,            \* this.cache: key -> [data, timestamp]
    validationCache,  \* this.validationCache: key -> record + timestamp
    now,              \* Date.now()
    fetches,          \* requests in flight to the ESCO service
    netLog,           \* requests the ESCO service has received, in order
    calls,            \* validateKeyword invocations: id -> frame
    batch,            \* the validateKeywords invocation
    \* ---- EnhancedKeywordExtractor / scan ----
    scan              \* the running scan (extractAndValidate twice + scoring)

scorerVars == <<weights, jdKeywords, resumeKeywords, tfIdfWeights,
                escoValidated, scoreResult>>
clientVars == <<cache, validationCache, now, fetches, netLog, calls, batch>>
vars == <<weights, jdKeywords, resumeKeywords, tfIdfWeights, escoValidated,
          scoreResult, cache, validationCache, now, fetches, netLog, calls,
          batch, scan>>

-----------------------------------------------------------------------------
(* Strings *)

\* String.prototype.toLowerCase on ASCII code units
toLowerCase(s) ==
    [i \in 1..Len(s) |-> IF s[i] >= 65 /\ s[i] <= 90 THEN s[i] + 32 ELSE s[i]]

IsSpace(c) == c \in {9, 10, 11, 12, 13, 32}

RECURSIVE trimStart(_)
trimStart(s) ==
    IF s = <<>> THEN s
    ELSE IF IsSpace(Head(s)) THEN trimStart(Tail(s)) ELSE s

RECURSIVE trimEnd(_)
trimEnd(s) ==
    IF s = <<>> THEN s
    ELSE IF IsSpace(s[Len(s)]) THEN trimEnd(SubSeq(s, 1, Len(s) - 1)) ELSE s

\* String.prototype.trim
trim(s) == trimEnd(trimStart(s))

\* String.prototype.includes
includes(s, sub) ==
    \E i \in 0..(Len(s) - Len(sub)) : SubSeq(s, i + 1, i + Len(sub)) = sub

\* the terms used as inputs, written out as code units
AWS   == <<65, 87, 83>>
aws   == <<97, 119, 115>>
Java  == <<74, 97, 118, 97>>
java  == <<106, 97, 118, 97>>
SQL   == <<83, 81, 76>>
sql   == <<115, 113, 108>>
TypeScript == <<84, 121, 112, 101, 83, 99, 114, 105, 112, 116>>
typescript == <<116, 121, 112, 101, 115, 99, 114, 105, 112, 116>>

-----------------------------------------------------------------------------
(* Numbers: exact rationals in lowest terms *)

Abs(x) == IF x < 0 THEN -x ELSE x

RECURSIVE GCD(_, _)
GCD(a, b) == IF b = 0 THEN a ELSE GCD(b, a % b)

Q(n, d) == LET g == GCD(Abs(n), d) IN [n |-> n \div g, d |-> d \div g]

Zero == Q(0, 1)
One  == Q(1, 1)

QAdd(a, b) == Q(a.n * b.d + b.n * a.d, a.d * b.d)
QMul(a, b) == Q(a.n * b.n, a.d * b.d)
\* a / b for b > 0
QDiv(a, b) == Q(a.n * b.d, a.d * b.n)
QLt(a, b)  == a.n * b.d < b.n * a.d
QLe(a, b)  == a.n * b.d <= b.n * a.d
QMin(a, b) == IF QLt(b, a) THEN b ELSE a
\* Math.round: the integer nearest to a, halves rounded up
QRound(a)  == (2 * a.n + a.d) \div (2 * a.d)


RECURSIVE SumSeq(_)
SumSeq(s) == IF s = <<>> THEN 0 ELSE Head(s) + SumSeq(Tail(s))

RECURSIVE QSumSeq(_)
QSumSeq(s) == IF s = <<>> THEN Zero ELSE QAdd(Head(s), QSumSeq(Tail(s)))

Range(s) == {s[i] : i \in DOMAIN s}

-----------------------------------------------------------------------------
(* types.ts *)

\* keys of ExtractedKeywords, in declaration order
CategoryKeys == <<"hardSkills", "softSkills", "jobTitles", "certifications", "tools">>
Categories == Range(CategoryKeys)

\* keys of ATSScores / ScoringWeights, in the order calculateScore builds them
DimensionKeys == <<"hardSkills", "jobTitle", "softSkills", "certifications", "tools">>
Dimensions == Range(DimensionKeys)

DEFAULT_SCORING_WEIGHTS ==
    [hardSkills |-> Q(50, 100), jobTitle |-> Q(25, 100), softSkills |-> Q(15, 100),
     certifications |-> Q(5, 100), tools |-> Q(5, 100)]

\* SCORE_LEVELS, in declaration order (the order Object.entries walks)
SCORE_LEVELS ==
    << [key |-> "EXCELLENT", min |-> 85, max |-> 100, label |-> "Excellent"],
       [key |-> "GOOD",      min |-> 70, max |-> 84,  label |-> "Good"],
       [key |-> "FAIR",      min |-> 55, max |-> 69,  label |-> "Fair"],
       [key |-> "POOR",      min |-> 40, max |-> 54,  label |-> "Poor"],
       [key |-> "VERY_POOR", min |-> 0,  max |-> 39,  label |-> "Very Poor"] >>

-----------------------------------------------------------------------------
(* ATSScorer *)

\* resumeKeywords.some(r => r.toLowerCase() === keyword.toLowerCase())
someEqualIgnoreCase(resumeKws, keyword) ==
    \E i \in 1..Len(resumeKws) : toLowerCase(resumeKws[i]) = toLowerCase(keyword)

\* the mutant of matchedKeywordsOf: compares the strings as they are
matchedKeywordsOf_caseSensitive(jdKws, resumeKws) ==
    LET hit(k) == \E i \in 1..Len(resumeKws) : resumeKws[i] = k
    IN  SelectSeq(jdKws, hit)

matchedKeywordsOf(jdKws, resumeKws) ==
    LET hit(k) == someEqualIgnoreCase(resumeKws, k)
    IN  SelectSeq(jdKws, hit)

missingKeywordsOf(jdKws, resumeKws) ==
    LET miss(k) == ~someEqualIgnoreCase(resumeKws, k)
    IN  SelectSeq(jdKws, miss)

\* tfIdfWeights.get(keyword) || 0
tfIdfGet(tf, keyword) == IF keyword \in DOMAIN tf THEN tf[keyword] ELSE 0

calculateTfIdfScore(matched, allJd, tf) ==
    IF Len(matched) = 0 \/ Len(allJd) = 0 THEN Zero
    ELSE LET matchedWeight == SumSeq([i \in 1..Len(matched) |-> tfIdfGet(tf, matched[i])])
             totalWeight   == SumSeq([i \in 1..Len(allJd) |-> tfIdfGet(tf, allJd[i])])
         IN  IF totalWeight > 0 THEN Q(matchedWeight, totalWeight) ELSE Zero

calculateQualityScore(matched, ev) ==
    IF Len(matched) = 0 THEN Zero
    ELSE LET hit(k) == toLowerCase(k) \in ev
             escoValidatedCount == Len(SelectSeq(matched, hit))
             escoValidationRate == Q(escoValidatedCount, Len(matched))
             avgLength == Q(SumSeq([i \in 1..Len(matched) |-> Len(matched[i])]), Len(matched))
             lengthQuality == QMin(QDiv(avgLength, Q(8, 1)), One)
         IN  QAdd(QMul(escoValidationRate, Q(7, 10)), QMul(lengthQuality, Q(3, 10)))

\* basicMatchRate is a local of the method; the record keeps it for reference
calculateDimensionScore(jdKws, resumeKws, tf, ev) ==
    LET matched  == matchedKeywordsOf(jdKws, resumeKws)
        missing  == missingKeywordsOf(jdKws, resumeKws)
        basicMatchRate == IF Len(jdKws) > 0 THEN Q(Len(matched), Len(jdKws)) ELSE Zero
        tfIdfScore   == calculateTfIdfScore(matched, jdKws, tf)
        qualityScore == calculateQualityScore(matched, ev)
        dimensionScore ==
            QAdd(QAdd(QMul(basicMatchRate, Q(6, 10)), QMul(tfIdfScore, Q(3, 10))),
                 QMul(qualityScore, Q(1, 10)))
    IN  [score |-> QMin(dimensionScore, One), matched |-> Len(matched), total |-> Len(jdKws),
         matchedKeywords |-> matched, missingKeywords |-> missing,
         qualityScore |-> qualityScore, tfIdfWeight |-> tfIdfScore,
         basicMatchRate |-> basicMatchRate]

\* the forEach of calculateFinalScore over Object.entries(dimensionScores):
\* acc = [totalScore, totalWeight]
RECURSIVE finalScoreLoop(_, _, _, _)
finalScoreLoop(dims, w, i, acc) ==
    IF i > Len(DimensionKeys) THEN acc
    ELSE LET dimension == DimensionKeys[i]
             score == dims[dimension]
         IN  IF score.total > 0
             THEN finalScoreLoop(dims, w, i + 1,
                     [totalScore  |-> QAdd(acc.totalScore, QMul(score.score, w[dimension])),
                      totalWeight |-> QAdd(acc.totalWeight, w[dimension])])
             ELSE finalScoreLoop(dims, w, i + 1, acc)

\* the mutant of calculateFinalScore: every dimension takes part, empty or not
RECURSIVE finalScoreLoop_all(_, _, _, _)
finalScoreLoop_all(dims, w, i, acc) ==
    IF i > Len(DimensionKeys) THEN acc
    ELSE LET dimension == DimensionKeys[i]
             score == dims[dimension]
         IN  finalScoreLoop_all(dims, w, i + 1,
                     [totalScore  |-> QAdd(acc.totalScore, QMul(score.score, w[dimension])),
                      totalWeight |-> QAdd(acc.totalWeight, w[dimension])])

\* the mutant of calculateFinalScore: totalWeight = weight instead of +=
RECURSIVE finalScoreLoop_assign(_, _, _, _)
finalScoreLoop_assign(dims, w, i, acc) ==
    IF i > Len(DimensionKeys) THEN acc
    ELSE LET dimension == DimensionKeys[i]
             score == dims[dimension]
         IN  IF score.total > 0
             THEN finalScoreLoop_assign(dims, w, i + 1,
                     [totalScore  |-> QAdd(acc.totalScore, QMul(score.score, w[dimension])),
                      totalWeight |-> w[dimension]])
             ELSE finalScoreLoop_assign(dims, w, i + 1, acc)

calculateFinalScore_lastWeight(dims, w) ==
    LET acc == finalScoreLoop_assign(dims, w, 1, [totalScore |-> Zero, totalWeight |-> Zero])
        normalizedScore == IF QLt(Zero, acc.totalWeight)
                           THEN QDiv(acc.totalScore, acc.totalWeight) ELSE Zero
    IN  QRound(QMul(normalizedScore, Q(100, 1)))

calculateFinalScore_allDimensions(dims, w) ==
    LET acc == finalScoreLoop_all(dims, w, 1, [totalScore |-> Zero, totalWeight |-> Zero])
        normalizedScore == IF QLt(Zero, acc.totalWeight)
                           THEN QDiv(acc.totalScore, acc.totalWeight) ELSE Zero
    IN  QRound(QMul(normalizedScore, Q(100, 1)))

calculateFinalScore(dims, w) ==
    LET acc == finalScoreLoop(dims, w, 1, [totalScore |-> Zero, totalWeight |-> Zero])
        normalizedScore == IF QLt(Zero, acc.totalWeight)
                           THEN QDiv(acc.totalScore, acc.totalWeight) ELSE Zero
    IN  QRound(QMul(normalizedScore, Q(100, 1)))

RECURSIVE scoreLevelLoop(_, _)
scoreLevelLoop(score, i) ==
    IF i > Len(SCORE_LEVELS) THEN SCORE_LEVELS[5].label
    ELSE IF score >= SCORE_LEVELS[i].min /\ score <= SCORE_LEVELS[i].max
         THEN SCORE_LEVELS[i].label
         ELSE scoreLevelLoop(score, i + 1)

\* the mutant of getScoreLevel: the upper end of a range is exclusive
RECURSIVE scoreLevelLoop_exclusive(_, _)
scoreLevelLoop_exclusive(score, i) ==
    IF i > Len(SCORE_LEVELS) THEN SCORE_LEVELS[5].label
    ELSE IF score >= SCORE_LEVELS[i].min /\ score < SCORE_LEVELS[i].max
         THEN SCORE_LEVELS[i].label
         ELSE scoreLevelLoop_exclusive(score, i + 1)

getScoreLevel_exclusiveMax(score) == scoreLevelLoop_exclusive(score, 1)

getScoreLevel(score) == scoreLevelLoop(score, 1)

\* Number((x * 100).toFixed(1)): a percentage with one decimal
toPercent1(x) == Q(QRound(QMul(x, Q(1000, 1))), 10)

RECURSIVE flatMatched(_, _)
flatMatched(dims, i) ==
    IF i > Len(DimensionKeys) THEN <<>>
    ELSE dims[DimensionKeys[i]].matchedKeywords \o flatMatched(dims, i + 1)

calculateQualityMetrics(dims, ev) ==
    LET allMatched == SumSeq([i \in 1..Len(DimensionKeys) |-> dims[DimensionKeys[i]].matched])
        allTotal   == SumSeq([i \in 1..Len(DimensionKeys) |-> dims[DimensionKeys[i]].total])
        allMatchedKeywords == flatMatched(dims, 1)
        hit(k) == toLowerCase(k) \in ev
        escoValidatedCount == Len(SelectSeq(allMatchedKeywords, hit))
        escoValidationRate == IF Len(allMatchedKeywords) > 0
                              THEN Q(escoValidatedCount, Len(allMatchedKeywords)) ELSE Zero
        keywordDensity == IF allTotal > 0 THEN Q(allMatched, allTotal) ELSE Zero
        avgQualityScore ==
            QDiv(QSumSeq([i \in 1..Len(DimensionKeys) |-> dims[DimensionKeys[i]].qualityScore]),
                 Q(Len(DimensionKeys), 1))
    IN  [escoValidationRate  |-> toPercent1(escoValidationRate),
         keywordDensity      |-> toPercent1(keywordDensity),
         contextualRelevance |-> toPercent1(avgQualityScore)]

\* the ExtractedKeywords key each dimension of calculateScore reads
dimensionCategory(dimension) == IF dimension = "jobTitle" THEN "jobTitles" ELSE dimension

calculateScore(w, jd, res, tf, ev) ==
    LET dimensionScores ==
            [dim \in Dimensions |->
                calculateDimensionScore(jd[dimensionCategory(dim)],
                                        res[dimensionCategory(dim)], tf, ev)]
        totalScore == calculateFinalScore(dimensionScores, w)
    IN  [done |-> TRUE,
         dimensionScores |-> dimensionScores,
         totalScore |-> totalScore,
         level |-> getScoreLevel(totalScore),
         qualityMetrics |-> calculateQualityMetrics(dimensionScores, ev)]

NoResult == [done |-> FALSE]

-----------------------------------------------------------------------------
(* ESCOAPIClient: values *)

DEFAULT_LANGUAGE == <<101, 110>>   \* "en"

cacheExpiry           == 24 * 60 * 60 * 1000
validationCacheExpiry == 60 * 60 * 1000

\* JavaScript values that are not strings, numbers or arrays of entries
Null      == [shape |-> "null"]
Undefined == [shape |-> "undefined"]
Pending   == [shape |-> "pending"]            \* a promise not yet settled
ArrayOf(items) == [shape |-> "array", items |-> items]
PlainObject    == [shape |-> "object"]        \* {}: truthy, not iterable

\* ToBoolean of the values above (an array, even empty, is truthy)
Truthy(v) == v.shape \notin {"null", "undefined"}

\* obj.name: undefined when the object has no such property
Prop(obj, name) == IF name \in DOMAIN obj THEN obj[name] ELSE Undefined

MapPut(m, k, v) == [x \in (DOMAIN m) \cup {k} |-> IF x = k THEN v ELSE m[x]]
MapDel(m, k)    == [x \in (DOMAIN m) \ {k} |-> m[x]]

\* ESCOSkill / ESCOOccupation entries
Skill(title, labels, skillType, reuseLevel) ==
    [kind |-> "skill", title |-> title, alternativeLabels |-> labels,
     skillType |-> skillType, reuseLevel |-> reuseLevel]
Occupation(title, labels) ==
    [kind |-> "occupation", title |-> title, alternativeLabels |-> labels]

-----------------------------------------------------------------------------
(* ESCOAPIClient: pure methods *)

Min2(a, b) == IF a < b THEN a ELSE b

\* F applied to the value of v (v is evaluated once, before F)
ApplyTo(v, F(_)) == CHOOSE r \in {F(x) : x \in {v}} : TRUE

\* one row of the matrix of levenshteinDistance: row holds matrix[j][0..i-1]
RECURSIVE levRow(_, _, _, _, _)
levRow(row, prev, str1, c2, i) ==
    IF i > Len(str1) THEN row
    ELSE LET indicator == IF str1[i] = c2 THEN 0 ELSE 1
             cell == Min2(Min2(row[i] + 1, prev[i + 1] + 1), prev[i] + indicator)
         IN  ApplyTo(Append(row, cell), LAMBDA next : levRow(next, prev, str1, c2, i + 1))

RECURSIVE levRows(_, _, _, _)
levRows(prev, str1, str2, j) ==
    IF j > Len(str2) THEN prev
    ELSE ApplyTo(levRow(<<j>>, prev, str1, str2[j], 1),
                 LAMBDA row : levRows(row, str1, str2, j + 1))

levenshteinDistance(str1, str2) ==
    ApplyTo(str1, LAMBDA s1 : ApplyTo(str2, LAMBDA s2 :
        levRows([i \in 1..(Len(s1) + 1) |-> i - 1], s1, s2, 1)[Len(s1) + 1]))

calculateSimilarity(str1, str2) ==
    LET longer  == IF Len(str1) > Len(str2) THEN str1 ELSE str2
        shorter == IF Len(str1) > Len(str2) THEN str2 ELSE str1
    IN  IF Len(longer) = 0 THEN One
        ELSE Q(Len(longer) - levenshteinDistance(longer, shorter), Len(longer))

calculateMatchConfidence(keyword, title, alternativeLabels) ==
    LET normalizedTitle   == toLowerCase(title)
        normalizedKeyword == toLowerCase(keyword)
        labels == [i \in 1..Len(alternativeLabels) |-> toLowerCase(alternativeLabels[i])]
        \* the second loop returns at the first label that contains or is contained
        partial == {i \in 1..Len(labels) :
                       includes(labels[i], normalizedKeyword) \/ includes(normalizedKeyword, labels[i])}
        first == CHOOSE i \in partial : \A k \in partial : i <= k
        similarity == calculateSimilarity(normalizedKeyword, normalizedTitle)
    IN  IF normalizedKeyword = normalizedTitle THEN One
        ELSE IF \E i \in 1..Len(labels) : normalizedKeyword = labels[i] THEN Q(95, 100)
        ELSE IF includes(normalizedTitle, normalizedKeyword) THEN Q(8, 10)
        ELSE IF includes(normalizedKeyword, normalizedTitle) THEN Q(75, 100)
        ELSE IF partial # {}
             THEN (IF includes(labels[first], normalizedKeyword) THEN Q(7, 10) ELSE Q(65, 100))
        ELSE IF QLt(Q(8, 10), similarity) THEN QMul(similarity, Q(6, 10)) ELSE Zero

\* words tested by categorizeESCOSkill
W_computer      == <<99, 111, 109, 112, 117, 116, 101, 114>>
W_software      == <<115, 111, 102, 116, 119, 97, 114, 101>>
W_programming   == <<112, 114, 111, 103, 114, 97, 109, 109, 105, 110, 103>>
W_education     == <<101, 100, 117, 99, 97, 116, 105, 111, 110>>
W_degree        == <<100, 101, 103, 114, 101, 101>>
W_qualification == <<113, 117, 97, 108, 105, 102, 105, 99, 97, 116, 105, 111, 110>>

categorizeESCOSkill(skill) ==
    LET title == toLowerCase(skill.title)
    IN  IF skill.skillType = "knowledge"
        THEN IF includes(title, W_computer) \/ includes(title, W_software)
                  \/ includes(title, W_programming)
             THEN "hardSkills"
             ELSE IF includes(title, W_education) \/ includes(title, W_degree)
                       \/ includes(title, W_qualification)
                  THEN "education"
                  ELSE "hardSkills"
        ELSE IF skill.skillType = "attitude" \/ skill.reuseLevel = "transversal"
             THEN "softSkills"
             ELSE "hardSkills"

\* suggestLabels without the comparison with the original keyword
RECURSIVE suggestLabels_keepOriginal(_, _, _, _)
suggestLabels_keepOriginal(suggestions, labels, normalizedOriginal, i) ==
    IF i > Len(labels) THEN suggestions
    ELSE suggestLabels_keepOriginal(
            IF labels[i] \notin Range(suggestions)
            THEN Append(suggestions, labels[i]) ELSE suggestions,
            labels, normalizedOriginal, i + 1)

\* the inner forEach of generateSuggestions over skill.alternativeLabels
RECURSIVE suggestLabels(_, _, _, _)
suggestLabels(suggestions, labels, normalizedOriginal, i) ==
    IF i > Len(labels) THEN suggestions
    ELSE suggestLabels(
            IF toLowerCase(labels[i]) # normalizedOriginal /\ labels[i] \notin Range(suggestions)
            THEN Append(suggestions, labels[i]) ELSE suggestions,
            labels, normalizedOriginal, i + 1)

RECURSIVE suggestSkills(_, _, _, _)
suggestSkills(suggestions, skills, normalizedOriginal, i) ==
    IF i > Len(skills) THEN suggestions
    ELSE LET withTitle == IF toLowerCase(skills[i].title) # normalizedOriginal
                          THEN Append(suggestions, skills[i].title) ELSE suggestions
         IN  suggestSkills(
                suggestLabels(withTitle, skills[i].alternativeLabels, normalizedOriginal, 1),
                skills, normalizedOriginal, i + 1)

RECURSIVE suggestOccupations(_, _, _, _)
suggestOccupations(suggestions, occupations, normalizedOriginal, i) ==
    IF i > Len(occupations) THEN suggestions
    ELSE suggestOccupations(
            IF toLowerCase(occupations[i].title) # normalizedOriginal
            THEN Append(suggestions, occupations[i].title) ELSE suggestions,
            occupations, normalizedOriginal, i + 1)

generateSuggestions(skills, occupations, originalKeyword) ==
    LET normalizedOriginal == toLowerCase(originalKeyword)
    IN  suggestOccupations(suggestSkills(<<>>, skills, normalizedOriginal, 1),
                           occupations, normalizedOriginal, 1)

\* Array.prototype.slice(0, n)
sliceTo(s, n) == SubSeq(s, 1, Min2(n, Len(s)))

\* bestOverSkills without the comparison: the last skill is kept
RECURSIVE bestOverSkills_lastKept(_, _, _, _)
bestOverSkills_lastKept(best, skills, normalizedKeyword, i) ==
    IF i > Len(skills) THEN best
    ELSE LET matchConfidence == calculateMatchConfidence(normalizedKeyword, skills[i].title,
                                                         skills[i].alternativeLabels)
         IN  bestOverSkills_lastKept(
                [bestMatch |-> skills[i], confidence |-> matchConfidence,
                 category |-> categorizeESCOSkill(skills[i])],
                skills, normalizedKeyword, i + 1)

\* the two for loops of validateKeyword: best = [bestMatch, confidence, category]
RECURSIVE bestOverSkills(_, _, _, _)
bestOverSkills(best, skills, normalizedKeyword, i) ==
    IF i > Len(skills) THEN best
    ELSE LET matchConfidence == calculateMatchConfidence(normalizedKeyword, skills[i].title,
                                                         skills[i].alternativeLabels)
         IN  bestOverSkills(
                IF QLt(best.confidence, matchConfidence)
                THEN [bestMatch |-> skills[i], confidence |-> matchConfidence,
                      category |-> categorizeESCOSkill(skills[i])]
                ELSE best,
                skills, normalizedKeyword, i + 1)

RECURSIVE bestOverOccupations(_, _, _, _)
bestOverOccupations(best, occupations, normalizedKeyword, i) ==
    IF i > Len(occupations) THEN best
    ELSE LET matchConfidence == calculateMatchConfidence(normalizedKeyword, occupations[i].title,
                                                         occupations[i].alternativeLabels)
         IN  bestOverOccupations(
                IF QLt(best.confidence, matchConfidence)
                THEN [bestMatch |-> occupations[i], confidence |-> matchConfidence,
                      category |-> "jobTitles"]
                ELSE best,
                occupations, normalizedKeyword, i + 1)

\* the mutant of isValidatedOf: >= instead of >
isValidatedOf_atLeast(confidence) == QLe(Q(7, 10), confidence)

\* isValidated: confidence > 0.7
isValidatedOf(confidence) == QLt(Q(7, 10), confidence)

\* validateKeyword from "Find best match" to the result object
buildValidationResult(keyword, normalizedKeyword, skills, occupations) ==
    LET best == bestOverOccupations(
                    bestOverSkills([bestMatch |-> Undefined, confidence |-> Zero,
                                    category |-> "hardSkills"],
                                   skills, normalizedKeyword, 1),
                    occupations, normalizedKeyword, 1)
        suggestions == generateSuggestions(skills, occupations, normalizedKeyword)
    IN  [shape |-> "record",
         keyword |-> keyword,
         isValidated |-> isValidatedOf(best.confidence),
         escoMatch |-> best.bestMatch,
         confidence |-> best.confidence,
         category |-> best.category,
         suggestions |-> sliceTo(suggestions, 3)]

-----------------------------------------------------------------------------
(* ESCOAPIClient: the caches *)

\* the mutant of getFromCache: the age of the entry is not checked
getFromCache_noExpiry(c, key, t) ==
    IF key \in DOMAIN c
    THEN [ret |-> c[key].data, cache |-> c]
    ELSE [ret |-> Null, cache |-> MapDel(c, key)]

\* getFromCache: the value returned and this.cache afterwards
getFromCache(c, key, t) ==
    IF key \in DOMAIN c /\ t - c[key].timestamp < cacheExpiry
    THEN [ret |-> c[key].data, cache |-> c]
    ELSE [ret |-> Null, cache |-> MapDel(c, key)]

setCache(c, key, data, t) == MapPut(c, key, [data |-> data, timestamp |-> t])

\* getValidationFromCache: the value returned and this.validationCache
\* afterwards.  The entry is the spread record plus timestamp, so
\* cacheEntry.data is read through Prop.
getValidationFromCache(vc, key, t) ==
    IF key \in DOMAIN vc
    THEN LET cacheEntry == vc[key]
             hasTimestamp == "timestamp" \in DOMAIN cacheEntry /\ cacheEntry.timestamp # 0
         IN  IF hasTimestamp /\ t - cacheEntry.timestamp < validationCacheExpiry
             THEN [ret |-> Prop(cacheEntry, "data"), cache |-> vc]
             ELSE IF ~hasTimestamp
                  THEN [ret |-> cacheEntry, cache |-> vc]
                  ELSE [ret |-> Null, cache |-> MapDel(vc, key)]
    ELSE [ret |-> Null, cache |-> vc]

\* setValidationCache: { ...data, timestamp: Date.now() }
setValidationCache(vc, key, data, t) ==
    MapPut(vc, key, [f \in (DOMAIN data) \cup {"timestamp"} |->
                        IF f = "timestamp" THEN t ELSE data[f]])

\* `skills_${query}_${limit}_${language}` / `occupations_...` / `validation_...`
searchCacheKey(type, query, limit, language) == <<type, query, limit, language>>
validationCacheKey(normalizedKeyword) == <<"validation", normalizedKeyword>>

\* what a cache holds for a key when it is read: is there an entry, how old
EntryAge(c, key, t) ==
    IF key \in DOMAIN c
    THEN [present |-> TRUE, age |-> t - c[key].timestamp, entry |-> c[key]]
    ELSE [present |-> FALSE]

-----------------------------------------------------------------------------
(* ESCOAPIClient: searchSkills / searchOccupations / validateKeyword as steps
   between their awaits.  st = [cache, validationCache, fetches, netLog, calls] *)

\* searchSkills / searchOccupations up to the await of fetch
searchBegin(c, type, query, limit, t) ==
    LET cached == getFromCache(c, searchCacheKey(type, query, limit, DEFAULT_LANGUAGE), t)
    IN  IF Truthy(cached.ret)
        THEN [value |-> cached.ret, cache |-> cached.cache, fetch |-> FALSE]
        ELSE [value |-> Pending, cache |-> cached.cache, fetch |-> TRUE]

\* the mutant of searchEnd: a failed search is cached as an empty list
searchEnd_cacheFailures(c, type, query, limit, outcome, t) ==
    IF outcome.kind # "ok"
    THEN [value |-> ArrayOf(<<>>),
          cache |-> setCache(c, searchCacheKey(type, query, limit, DEFAULT_LANGUAGE),
                             ArrayOf(<<>>), t)]
    ELSE LET results == IF Truthy(outcome.results) THEN outcome.results ELSE ArrayOf(<<>>)
         IN  [value |-> results,
              cache |-> setCache(c, searchCacheKey(type, query, limit, DEFAULT_LANGUAGE),
                                 results, t)]

\* searchSkills / searchOccupations after the await: outcome is what fetch and
\* response.json() gave.  networkError: fetch rejects; notOk: !response.ok;
\* badJson: response.json() rejects; ok: data._embedded?.results is
\* outcome.results
searchEnd(c, type, query, limit, outcome, t) ==
    IF outcome.kind # "ok"
    THEN [value |-> ArrayOf(<<>>), cache |-> c]
    ELSE LET results == IF Truthy(outcome.results) THEN outcome.results ELSE ArrayOf(<<>>)
         IN  [value |-> results,
              cache |-> setCache(c, searchCacheKey(type, query, limit, DEFAULT_LANGUAGE),
                                 results, t)]

Request(id, type, query) == [call |-> id, type |-> type, text |-> query]

\* validateKeyword up to the await of Promise.all
startCall(st, keyword, t) ==
    LET id == Len(st.calls) + 1
        normalizedKeyword == trim(toLowerCase(keyword))
        vkey   == validationCacheKey(normalizedKeyword)
        cached == getValidationFromCache(st.validationCache, vkey, t)
        sk == searchBegin(st.cache, "skills", normalizedKeyword, 3, t)
        oc == searchBegin(sk.cache, "occupations", normalizedKeyword, 3, t)
        reqS == IF sk.fetch THEN <<Request(id, "skills", normalizedKeyword)>> ELSE <<>>
        reqO == IF oc.fetch THEN <<Request(id, "occupations", normalizedKeyword)>> ELSE <<>>
        base == [keyword |-> keyword, normalizedKeyword |-> normalizedKeyword,
                 validationRead |-> EntryAge(st.validationCache, vkey, t)]
    IN  IF Truthy(cached.ret)
        THEN [st EXCEPT
                !.validationCache = cached.cache,
                !.calls = Append(@, base @@
                    [pc |-> "done", result |-> cached.ret,
                     fromValidationCache |-> TRUE,
                     skills |-> Undefined, occupations |-> Undefined,
                     skillsVia |-> "none", occupationsVia |-> "none",
                     skillsRead |-> [present |-> FALSE],
                     occupationsRead |-> [present |-> FALSE],
                     requests |-> 0])]
        ELSE [st EXCEPT
                !.validationCache = cached.cache,
                !.cache = oc.cache,
                !.fetches = @ \cup Range(reqS \o reqO),
                !.netLog = @ \o reqS \o reqO,
                !.calls = Append(@, base @@
                    [pc |-> "awaiting", result |-> Undefined,
                     fromValidationCache |-> FALSE,
                     skills |-> sk.value, occupations |-> oc.value,
                     skillsVia |-> IF sk.fetch THEN "pending" ELSE "cache",
                     occupationsVia |-> IF oc.fetch THEN "pending" ELSE "cache",
                     skillsRead |-> EntryAge(st.cache, searchCacheKey("skills", normalizedKeyword, 3, DEFAULT_LANGUAGE), t),
                     occupationsRead |-> EntryAge(sk.cache, searchCacheKey("occupations", normalizedKeyword, 3, DEFAULT_LANGUAGE), t),
                     requests |-> Len(reqS \o reqO)])]

\* settleFetch with the answer handed to the first call that still waits for
\* a search of this type, instead of the call that sent the request
settleFetch_firstWaiting(st, r, outcome, t) ==
    LET done == searchEnd(st.cache, r.type, r.text, 3, outcome, t)
        via  == IF outcome.kind # "ok" THEN "failed"
                ELSE IF done.value.shape # "array" THEN "malformed"
                ELSE "ok"
        waiting == {id \in 1..Len(st.calls) :
                       IF r.type = "skills" THEN st.calls[id].skills = Pending
                       ELSE st.calls[id].occupations = Pending}
        first   == CHOOSE id \in waiting : \A other \in waiting : id <= other
    IN  [st EXCEPT
            !.cache = done.cache,
            !.fetches = @ \ {r},
            !.calls[first] =
                IF r.type = "skills"
                THEN [@ EXCEPT !.skills = done.value, !.skillsVia = via]
                ELSE [@ EXCEPT !.occupations = done.value, !.occupationsVia = via]]

\* the search of request r settles with outcome
settleFetch(st, r, outcome, t) ==
    LET done == searchEnd(st.cache, r.type, r.text, 3, outcome, t)
        via  == IF outcome.kind # "ok" THEN "failed"
                ELSE IF done.value.shape # "array" THEN "malformed"
                ELSE "ok"
    IN  [st EXCEPT
            !.cache = done.cache,
            !.fetches = @ \ {r},
            !.calls[r.call] =
                IF r.type = "skills"
                THEN [@ EXCEPT !.skills = done.value, !.skillsVia = via]
                ELSE [@ EXCEPT !.occupations = done.value, !.occupationsVia = via]]

CallSettled(frame) ==
    /\ frame.pc = "awaiting"
    /\ frame.skills # Pending
    /\ frame.occupations # Pending

\* validateKeyword after Promise.all: `for (const skill of skills)` throws a
\* TypeError when the value is not iterable
finishCall(st, id, t) ==
    LET frame == st.calls[id]
    IN  IF frame.skills.shape # "array" \/ frame.occupations.shape # "array"
        THEN [st EXCEPT !.calls[id] = [@ EXCEPT !.pc = "threw"]]
        ELSE LET result == buildValidationResult(frame.keyword, frame.normalizedKeyword,
                                                 frame.skills.items, frame.occupations.items)
             IN  [st EXCEPT
                    !.validationCache =
                        setValidationCache(@, validationCacheKey(frame.normalizedKeyword),
                                           result, t),
                    !.calls[id] = [@ EXCEPT !.pc = "done", !.result = result]]

ClientState ==
    [cache |-> cache, validationCache |-> validationCache, fetches |-> fetches,
     netLog |-> netLog, calls |-> calls]

SetClientState(st) ==
    /\ cache' = st.cache
    /\ validationCache' = st.validationCache
    /\ fetches' = st.fetches
    /\ netLog' = st.netLog
    /\ calls' = st.calls

-----------------------------------------------------------------------------
(* ESCOAPIClient.validateKeywords *)

batchSize            == 20
maxConcurrentBatches == 10

\* setTimeout(resolve, 50) between two groups of concurrent batches
pacingDelay == 50

\* for (let i = 0; i < keywords.length; i += batchSize) batches.push(slice)
RECURSIVE createBatches(_, _)
createBatches(keywords, i) ==
    IF i >= Len(keywords) THEN <<>>
    ELSE <<SubSeq(keywords, i + 1, Min2(i + batchSize, Len(keywords)))>>
         \o createBatches(keywords, i + batchSize)

\* Array.prototype.flat over a sequence of sequences
RECURSIVE flat(_)
flat(ss) == IF ss = <<>> THEN <<>> ELSE Head(ss) \o flat(Tail(ss))

\* concurrentKeywords without the slice: every remaining batch is started
concurrentKeywords_allBatches(batches, i) ==
    flat(SubSeq(batches, i + 1, Len(batches)))

\* batches.slice(i, i + maxConcurrentBatches), flattened: the keywords whose
\* validateKeyword calls are started together
concurrentKeywords(batches, i) ==
    flat(SubSeq(batches, i + 1, Min2(i + maxConcurrentBatches, Len(batches))))

\* batch.map((keyword) => this.validateKeyword(keyword)): every call runs to
\* its first await, in order.  The calls lo..hi are started as the calls of
\* the first half followed by the calls of the second half
RECURSIVE startCallsBetween(_, _, _, _, _)
startCallsBetween(st, keywords, lo, hi, t) ==
    IF lo > hi THEN st
    ELSE IF lo = hi THEN startCall(st, keywords[lo], t)
    ELSE ApplyTo(startCallsBetween(st, keywords, lo, (lo + hi) \div 2, t),
                 LAMBDA next : startCallsBetween(next, keywords, (lo + hi) \div 2 + 1, hi, t))

startCalls(st, keywords, j, t) == startCallsBetween(st, keywords, j, Len(keywords), t)

\* validateKeywords up to the await of the first Promise.all (or to its
\* return, when there is no batch)
startBatch(st, keywords, t) ==
    LET batches == createBatches(keywords, 0)
        group   == concurrentKeywords(batches, 0)
        first   == Len(st.calls)
    IN  [st     |-> startCalls(st, group, 1, t),
         batch  |-> [status |-> IF Len(batches) = 0 THEN "resolved" ELSE "running",
                     keywords |-> keywords,
                     batches |-> batches,
                     i |-> 0,
                     callIds |-> [j \in 1..Len(group) |-> first + j],
                     results |-> <<>>]]

\* groupSettled with the results of a group put in front of the earlier ones
groupSettled_unshift(b, frames, t) ==
    LET results == [j \in 1..Len(b.callIds) |-> frames[b.callIds[j]].result] \o b.results
    IN  IF b.i + maxConcurrentBatches < Len(b.batches)
        THEN [status |-> "delay", results |-> results, timer |-> t + pacingDelay] @@ b
        ELSE [b EXCEPT !.status = "resolved", !.results = results]

\* await Promise.all(batchPromises) resolved; results.push(...); then the
\* pause before the next group (timer is when its setTimeout is due), or the
\* return
groupSettled(b, frames, t) ==
    LET results == b.results \o [j \in 1..Len(b.callIds) |-> frames[b.callIds[j]].result]
    IN  IF b.i + maxConcurrentBatches < Len(b.batches)
        THEN [status |-> "delay", results |-> results, timer |-> t + pacingDelay] @@ b
        ELSE [b EXCEPT !.status = "resolved", !.results = results]

\* the timer has fired: i += maxConcurrentBatches, and the calls of the next
\* group run to their first await
nextGroup(st, b, t) ==
    LET i     == b.i + maxConcurrentBatches
        group == concurrentKeywords(b.batches, i)
        first == Len(st.calls)
    IN  [st    |-> startCalls(st, group, 1, t),
         batch |-> [status |-> "running",
                    keywords |-> b.keywords,
                    batches |-> b.batches,
                    i |-> i,
                    callIds |-> [j \in 1..Len(group) |-> first + j],
                    results |-> b.results]]

-----------------------------------------------------------------------------
(* The idle values of the parts a specification does not exercise *)

MaxJdTerms             == 2
MaxResumeTerms         == 1
MaxCategoryTerms       == 3
MaxResumeCategoryTerms == 2

\* Date.now() at process start: any positive number of milliseconds
StartTime == 1000

NoBatch == [status |-> "idle"]
NoScan  == [pc |-> "idle"]

ClientIdle ==
    /\ cache = <<>>
    /\ validationCache = <<>>
    /\ now = StartTime
    /\ fetches = {}
    /\ netLog = <<>>
    /\ calls = <<>>
    /\ batch = NoBatch

-----------------------------------------------------------------------------
(* keywords/extractor.ts (src/unnamed/part_001): character classes and the
   regular expressions of the extractor, each as the set of strings it
   matches *)

IsDigit(c)    == c >= 48 /\ c <= 57
IsLetter(c)   == (c >= 97 /\ c <= 122) \/ (c >= 65 /\ c <= 90)
IsLowerAZ(c)  == c >= 97 /\ c <= 122
IsUpperAZ(c)  == c >= 65 /\ c <= 90
\* \w
IsWordChar(c) == IsLetter(c) \/ IsDigit(c) \/ c = 95

AllDigits(s)  == \A i \in 1..Len(s) : IsDigit(s[i])
AllLetters(s) == \A i \in 1..Len(s) : IsLetter(s[i])
NoLetters(s)  == \A i \in 1..Len(s) : ~IsLetter(s[i])
CountLetters(s) == Cardinality({i \in 1..Len(s) : IsLetter(s[i])})

\* /suffix$/
endsWith(s, suffix) ==
    Len(suffix) <= Len(s) /\ SubSeq(s, Len(s) - Len(suffix) + 1, Len(s)) = suffix

\* /^\d{a}<sep>\d{b}$/ for a in As, b in Bs, sep in Seps
DigitGroups(s, As, Seps, Bs) ==
    \E a \in As, b \in Bs :
        /\ Len(s) = a + 1 + b
        /\ AllDigits(SubSeq(s, 1, a))
        /\ s[a + 1] \in Seps
        /\ AllDigits(SubSeq(s, a + 2, Len(s)))

\* /^\d+[a-zA-Z]{1,2}$/
DigitsThenLetters(s) ==
    \E b \in 1..2 :
        /\ Len(s) > b
        /\ AllDigits(SubSeq(s, 1, Len(s) - b))
        /\ AllLetters(SubSeq(s, Len(s) - b + 1, Len(s)))

\* INVALID_PATTERNS[4]: common stop words
INVALID_STOP_WORDS ==
    { <<116, 104, 101>>,   \* the
      <<97, 110, 100>>,   \* and
      <<111, 114>>,   \* or
      <<98, 117, 116>>,   \* but
      <<105, 110>>,   \* in
      <<111, 110>>,   \* on
      <<97, 116>>,   \* at
      <<116, 111>>,   \* to
      <<102, 111, 114>>,   \* for
      <<111, 102>>,   \* of
      <<119, 105, 116, 104>>,   \* with
      <<98, 121>>,   \* by
      <<105, 115>>,   \* is
      <<97, 114, 101>>,   \* are
      <<119, 97, 115>>,   \* was
      <<119, 101, 114, 101>>,   \* were
      <<98, 101>>,   \* be
      <<98, 101, 101, 110>>,   \* been
      <<104, 97, 118, 101>>,   \* have
      <<104, 97, 115>>,   \* has
      <<104, 97, 100>>,   \* had
      <<100, 111>>,   \* do
      <<100, 111, 101, 115>>,   \* does
      <<100, 105, 100>>,   \* did
      <<119, 105, 108, 108>>,   \* will
      <<119, 111, 117, 108, 100>>,   \* would
      <<99, 111, 117, 108, 100>>,   \* could
      <<115, 104, 111, 117, 108, 100>>,   \* should
      <<109, 97, 121>>,   \* may
      <<109, 105, 103, 104, 116>>,   \* might
      <<99, 97, 110>>,   \* can
      <<109, 117, 115, 116>>,   \* must
      <<115, 104, 97, 108, 108>>    \* shall
    }

\* INVALID_PATTERNS[5]: question words and demonstratives
INVALID_QUESTION_WORDS ==
    { <<116, 104, 105, 115>>,   \* this
      <<116, 104, 97, 116>>,   \* that
      <<116, 104, 101, 115, 101>>,   \* these
      <<116, 104, 111, 115, 101>>,   \* those
      <<104, 101, 114, 101>>,   \* here
      <<116, 104, 101, 114, 101>>,   \* there
      <<119, 104, 101, 114, 101>>,   \* where
      <<119, 104, 101, 110>>,   \* when
      <<119, 104, 97, 116>>,   \* what
      <<119, 104, 111>>,   \* who
      <<119, 104, 121>>,   \* why
      <<104, 111, 119>>    \* how
    }

\* INVALID_PATTERNS[6]: adverbs
INVALID_ADVERBS ==
    { <<118, 101, 114, 121>>,   \* very
      <<113, 117, 105, 116, 101>>,   \* quite
      <<114, 97, 116, 104, 101, 114>>,   \* rather
      <<114, 101, 97, 108, 108, 121>>,   \* really
      <<106, 117, 115, 116>>,   \* just
      <<111, 110, 108, 121>>,   \* only
      <<97, 108, 115, 111>>,   \* also
      <<101, 118, 101, 110>>,   \* even
      <<115, 116, 105, 108, 108>>,   \* still
      <<121, 101, 116>>,   \* yet
      <<97, 108, 114, 101, 97, 100, 121>>,   \* already
      <<110, 111, 119>>,   \* now
      <<116, 104, 101, 110>>,   \* then
      <<115, 111, 111, 110>>,   \* soon
      <<108, 97, 116, 101, 114>>,   \* later
      <<98, 101, 102, 111, 114, 101>>,   \* before
      <<97, 102, 116, 101, 114>>,   \* after
      <<100, 117, 114, 105, 110, 103>>,   \* during
      <<119, 104, 105, 108, 101>>    \* while
    }

\* month abbreviations
MONTH_ABBREVIATIONS ==
    { <<106, 97, 110>>,   \* jan
      <<102, 101, 98>>,   \* feb
      <<109, 97, 114>>,   \* mar
      <<97, 112, 114>>,   \* apr
      <<109, 97, 121>>,   \* may
      <<106, 117, 110>>,   \* jun
      <<106, 117, 108>>,   \* jul
      <<97, 117, 103>>,   \* aug
      <<115, 101, 112>>,   \* sep
      <<111, 99, 116>>,   \* oct
      <<110, 111, 118>>,   \* nov
      <<100, 101, 99>>    \* dec
    }

\* day abbreviations
DAY_ABBREVIATIONS ==
    { <<109, 111, 110>>,   \* mon
      <<116, 117, 101>>,   \* tue
      <<119, 101, 100>>,   \* wed
      <<116, 104, 117>>,   \* thu
      <<102, 114, 105>>,   \* fri
      <<115, 97, 116>>,   \* sat
      <<115, 117, 110>>    \* sun
    }

\* INVALID_PATTERNS.some((pattern) => pattern.test(s)), s lower-cased
matchesInvalidPattern(s) ==
    \/ Len(s) > 0 /\ AllDigits(s)                       \* /^\d+$/
    \/ DigitGroups(s, 1..2, {47}, 1..2)                 \* /^\d{1,2}\/\d{1,2}$/
    \/ DigitGroups(s, 3..4, {45}, 4..4)                 \* /^\d{3,4}-\d{4}$/
    \/ Len(s) = 1 /\ IsLetter(s[1])                     \* /^[a-z]$/i
    \/ s \in INVALID_STOP_WORDS
    \/ s \in INVALID_QUESTION_WORDS
    \/ s \in INVALID_ADVERBS
    \/ Len(s) \in 1..2 /\ \A i \in 1..Len(s) : IsWordChar(s[i])   \* /^\w{1,2}$/
    \/ s \in MONTH_ABBREVIATIONS
    \/ s \in DAY_ABBREVIATIONS

isValidKeyword(keyword) ==
    LET lowerKeyword == trim(toLowerCase(keyword))
    IN  /\ ~matchesInvalidPattern(lowerKeyword)
        /\ Len(lowerKeyword) >= 2
        /\ Len(lowerKeyword) <= 25
        /\ ~NoLetters(lowerKeyword)                     \* /^[^a-zA-Z]*$/
        /\ ~DigitsThenLetters(lowerKeyword)

\* COMPOUND_WORDS, in insertion order: <<compound, parts>>
COMPOUND_WORDS ==
    <<
      <<<<102, 117, 108, 108, 45, 115, 116, 97, 99, 107>>, <<<<102, 117, 108, 108>>, <<115, 116, 97, 99, 107>>>>>>,   \* full-stack: full + stack
      <<<<102, 117, 108, 108, 115, 116, 97, 99, 107>>, <<<<102, 117, 108, 108>>, <<115, 116, 97, 99, 107>>>>>>,   \* fullstack: full + stack
      <<<<102, 114, 111, 110, 116, 45, 101, 110, 100>>, <<<<102, 114, 111, 110, 116>>, <<101, 110, 100>>>>>>,   \* front-end: front + end
      <<<<102, 114, 111, 110, 116, 101, 110, 100>>, <<<<102, 114, 111, 110, 116>>, <<101, 110, 100>>>>>>,   \* frontend: front + end
      <<<<98, 97, 99, 107, 45, 101, 110, 100>>, <<<<98, 97, 99, 107>>, <<101, 110, 100>>>>>>,   \* back-end: back + end
      <<<<98, 97, 99, 107, 101, 110, 100>>, <<<<98, 97, 99, 107>>, <<101, 110, 100>>>>>>,   \* backend: back + end
      <<<<109, 97, 99, 104, 105, 110, 101, 45, 108, 101, 97, 114, 110, 105, 110, 103>>, <<<<109, 97, 99, 104, 105, 110, 101>>, <<108, 101, 97, 114, 110, 105, 110, 103>>>>>>,   \* machine-learning: machine + learning
      <<<<97, 114, 116, 105, 102, 105, 99, 105, 97, 108, 45, 105, 110, 116, 101, 108, 108, 105, 103, 101, 110, 99, 101>>, <<<<97, 114, 116, 105, 102, 105, 99, 105, 97, 108>>, <<105, 110, 116, 101, 108, 108, 105, 103, 101, 110, 99, 101>>>>>>,   \* artificial-intelligence: artificial + intelligence
      <<<<100, 97, 116, 97, 45, 115, 99, 105, 101, 110, 99, 101>>, <<<<100, 97, 116, 97>>, <<115, 99, 105, 101, 110, 99, 101>>>>>>,   \* data-science: data + science
      <<<<119, 101, 98, 45, 100, 101, 118, 101, 108, 111, 112, 109, 101, 110, 116>>, <<<<119, 101, 98>>, <<100, 101, 118, 101, 108, 111, 112, 109, 101, 110, 116>>>>>>,   \* web-development: web + development
      <<<<115, 111, 102, 116, 119, 97, 114, 101, 45, 101, 110, 103, 105, 110, 101, 101, 114, 105, 110, 103>>, <<<<115, 111, 102, 116, 119, 97, 114, 101>>, <<101, 110, 103, 105, 110, 101, 101, 114, 105, 110, 103>>>>>>,   \* software-engineering: software + engineering
      <<<<99, 111, 109, 112, 117, 116, 101, 114, 45, 115, 99, 105, 101, 110, 99, 101>>, <<<<99, 111, 109, 112, 117, 116, 101, 114>>, <<115, 99, 105, 101, 110, 99, 101>>>>>>,   \* computer-science: computer + science
      <<<<117, 115, 101, 114, 45, 101, 120, 112, 101, 114, 105, 101, 110, 99, 101>>, <<<<117, 115, 101, 114>>, <<101, 120, 112, 101, 114, 105, 101, 110, 99, 101>>>>>>,   \* user-experience: user + experience
      <<<<117, 115, 101, 114, 45, 105, 110, 116, 101, 114, 102, 97, 99, 101>>, <<<<117, 115, 101, 114>>, <<105, 110, 116, 101, 114, 102, 97, 99, 101>>>>>>,   \* user-interface: user + interface
      <<<<113, 117, 97, 108, 105, 116, 121, 45, 97, 115, 115, 117, 114, 97, 110, 99, 101>>, <<<<113, 117, 97, 108, 105, 116, 121>>, <<97, 115, 115, 117, 114, 97, 110, 99, 101>>>>>>,   \* quality-assurance: quality + assurance
      <<<<112, 114, 111, 106, 101, 99, 116, 45, 109, 97, 110, 97, 103, 101, 109, 101, 110, 116>>, <<<<112, 114, 111, 106, 101, 99, 116>>, <<109, 97, 110, 97, 103, 101, 109, 101, 110, 116>>>>>>,   \* project-management: project + management
      <<<<112, 114, 111, 100, 117, 99, 116, 45, 109, 97, 110, 97, 103, 101, 109, 101, 110, 116>>, <<<<112, 114, 111, 100, 117, 99, 116>>, <<109, 97, 110, 97, 103, 101, 109, 101, 110, 116>>>>>>,   \* product-management: product + management
      <<<<98, 117, 115, 105, 110, 101, 115, 115, 45, 105, 110, 116, 101, 108, 108, 105, 103, 101, 110, 99, 101>>, <<<<98, 117, 115, 105, 110, 101, 115, 115>>, <<105, 110, 116, 101, 108, 108, 105, 103, 101, 110, 99, 101>>>>>>,   \* business-intelligence: business + intelligence
      <<<<99, 108, 111, 117, 100, 45, 99, 111, 109, 112, 117, 116, 105, 110, 103>>, <<<<99, 108, 111, 117, 100>>, <<99, 111, 109, 112, 117, 116, 105, 110, 103>>>>>>,   \* cloud-computing: cloud + computing
      <<<<99, 121, 98, 101, 114, 45, 115, 101, 99, 117, 114, 105, 116, 121>>, <<<<99, 121, 98, 101, 114>>, <<115, 101, 99, 117, 114, 105, 116, 121>>>>>>,   \* cyber-security: cyber + security
      <<<<105, 110, 102, 111, 114, 109, 97, 116, 105, 111, 110, 45, 116, 101, 99, 104, 110, 111, 108, 111, 103, 121>>, <<<<105, 110, 102, 111, 114, 109, 97, 116, 105, 111, 110>>, <<116, 101, 99, 104, 110, 111, 108, 111, 103, 121>>>>>>,   \* information-technology: information + technology
      <<<<110, 111, 100, 101, 45, 106, 115>>, <<<<110, 111, 100, 101>>, <<106, 115>>>>>>,   \* node-js: node + js
      <<<<114, 101, 97, 99, 116, 45, 106, 115>>, <<<<114, 101, 97, 99, 116>>, <<106, 115>>>>>>,   \* react-js: react + js
      <<<<118, 117, 101, 45, 106, 115>>, <<<<118, 117, 101>>, <<106, 115>>>>>>,   \* vue-js: vue + js
      <<<<97, 110, 103, 117, 108, 97, 114, 45, 106, 115>>, <<<<97, 110, 103, 117, 108, 97, 114>>, <<106, 115>>>>>>,   \* angular-js: angular + js
      <<<<110, 101, 120, 116, 45, 106, 115>>, <<<<110, 101, 120, 116>>, <<106, 115>>>>>>,   \* next-js: next + js
      <<<<101, 120, 112, 114, 101, 115, 115, 45, 106, 115>>, <<<<101, 120, 112, 114, 101, 115, 115>>, <<106, 115>>>>>>,   \* express-js: express + js
      <<<<118, 105, 115, 117, 97, 108, 45, 115, 116, 117, 100, 105, 111>>, <<<<118, 105, 115, 117, 97, 108>>, <<115, 116, 117, 100, 105, 111>>>>>>,   \* visual-studio: visual + studio
      <<<<103, 105, 116, 104, 117, 98, 45, 97, 99, 116, 105, 111, 110, 115>>, <<<<103, 105, 116, 104, 117, 98>>, <<97, 99, 116, 105, 111, 110, 115>>>>>>,   \* github-actions: github + actions
      <<<<103, 111, 111, 103, 108, 101, 45, 99, 108, 111, 117, 100>>, <<<<103, 111, 111, 103, 108, 101>>, <<99, 108, 111, 117, 100>>>>>>,   \* google-cloud: google + cloud
      <<<<97, 109, 97, 122, 111, 110, 45, 119, 101, 98, 45, 115, 101, 114, 118, 105, 99, 101, 115>>, <<<<97, 109, 97, 122, 111, 110>>, <<119, 101, 98>>, <<115, 101, 114, 118, 105, 99, 101, 115>>>>>>,   \* amazon-web-services: amazon + web + services
      <<<<109, 105, 99, 114, 111, 115, 111, 102, 116, 45, 97, 122, 117, 114, 101>>, <<<<109, 105, 99, 114, 111, 115, 111, 102, 116>>, <<97, 122, 117, 114, 101>>>>>>   \* microsoft-azure: microsoft + azure
    >>

\* TECH_STANDARDIZATION: <<lower-case spelling, canonical spelling>>
TECH_STANDARDIZATION ==
    <<
      <<<<106, 115>>, <<74, 97, 118, 97, 83, 99, 114, 105, 112, 116>>>>,   \* js -> JavaScript
      <<<<106, 97, 118, 97, 115, 99, 114, 105, 112, 116>>, <<74, 97, 118, 97, 83, 99, 114, 105, 112, 116>>>>,   \* javascript -> JavaScript
      <<<<101, 99, 109, 97, 115, 99, 114, 105, 112, 116>>, <<74, 97, 118, 97, 83, 99, 114, 105, 112, 116>>>>,   \* ecmascript -> JavaScript
      <<<<116, 115>>, <<84, 121, 112, 101, 83, 99, 114, 105, 112, 116>>>>,   \* ts -> TypeScript
      <<<<116, 121, 112, 101, 115, 99, 114, 105, 112, 116>>, <<84, 121, 112, 101, 83, 99, 114, 105, 112, 116>>>>,   \* typescript -> TypeScript
      <<<<110, 111, 100, 101, 106, 115>>, <<78, 111, 100, 101, 46, 106, 115>>>>,   \* nodejs -> Node.js
      <<<<110, 111, 100, 101>>, <<78, 111, 100, 101, 46, 106, 115>>>>,   \* node -> Node.js
      <<<<114, 101, 97, 99, 116, 106, 115>>, <<82, 101, 97, 99, 116>>>>,   \* reactjs -> React
      <<<<114, 101, 97, 99, 116>>, <<82, 101, 97, 99, 116>>>>,   \* react -> React
      <<<<103, 105, 116>>, <<71, 105, 116>>>>,   \* git -> Git
      <<<<103, 105, 116, 104, 117, 98>>, <<71, 105, 116, 72, 117, 98>>>>,   \* github -> GitHub
      <<<<103, 105, 116, 108, 97, 98>>, <<71, 105, 116, 76, 97, 98>>>>,   \* gitlab -> GitLab
      <<<<109, 121, 115, 113, 108>>, <<77, 121, 83, 81, 76>>>>,   \* mysql -> MySQL
      <<<<112, 111, 115, 116, 103, 114, 101, 115, 113, 108>>, <<80, 111, 115, 116, 103, 114, 101, 83, 81, 76>>>>,   \* postgresql -> PostgreSQL
      <<<<112, 111, 115, 116, 103, 114, 101, 115>>, <<80, 111, 115, 116, 103, 114, 101, 83, 81, 76>>>>,   \* postgres -> PostgreSQL
      <<<<109, 111, 110, 103, 111, 100, 98>>, <<77, 111, 110, 103, 111, 68, 66>>>>,   \* mongodb -> MongoDB
      <<<<109, 111, 110, 103, 111>>, <<77, 111, 110, 103, 111, 68, 66>>>>,   \* mongo -> MongoDB
      <<<<97, 119, 115>>, <<65, 87, 83>>>>,   \* aws -> AWS
      <<<<97, 122, 117, 114, 101>>, <<77, 105, 99, 114, 111, 115, 111, 102, 116, 32, 65, 122, 117, 114, 101>>>>,   \* azure -> Microsoft Azure
      <<<<103, 99, 112>>, <<71, 111, 111, 103, 108, 101, 32, 67, 108, 111, 117, 100, 32, 80, 108, 97, 116, 102, 111, 114, 109>>>>,   \* gcp -> Google Cloud Platform
      <<<<97, 112, 105>>, <<65, 80, 73>>>>,   \* api -> API
      <<<<114, 101, 115, 116>>, <<82, 69, 83, 84, 32, 65, 80, 73>>>>,   \* rest -> REST API
      <<<<103, 114, 97, 112, 104, 113, 108>>, <<71, 114, 97, 112, 104, 81, 76>>>>,   \* graphql -> GraphQL
      <<<<115, 113, 108>>, <<83, 81, 76>>>>,   \* sql -> SQL
      <<<<104, 116, 109, 108>>, <<72, 84, 77, 76>>>>,   \* html -> HTML
      <<<<99, 115, 115>>, <<67, 83, 83>>>>,   \* css -> CSS
      <<<<117, 105>>, <<85, 73>>>>,   \* ui -> UI
      <<<<117, 120>>, <<85, 88>>>>,   \* ux -> UX
      <<<<113, 97>>, <<81, 65>>>>,   \* qa -> QA
      <<<<99, 105>>, <<67, 73>>>>,   \* ci -> CI
      <<<<99, 100>>, <<67, 68>>>>,   \* cd -> CD
      <<<<100, 101, 118, 111, 112, 115>>, <<68, 101, 118, 79, 112, 115>>>>   \* devops -> DevOps
    >>

\* TECH_STANDARDIZATION.get(lowerKeyword) || keyword
standardizeTechName(keyword) ==
    LET lowerKeyword == toLowerCase(keyword)
        hits == {i \in 1..Len(TECH_STANDARDIZATION) : TECH_STANDARDIZATION[i][1] = lowerKeyword}
    IN  IF hits = {} THEN keyword ELSE TECH_STANDARDIZATION[CHOOSE i \in hits : TRUE][2]

standardizeTechNames(keywords) ==
    [i \in 1..Len(keywords) |-> standardizeTechName(keywords[i])]

\* keywords.map((k) => k.toLowerCase())
toLowerCaseAll(keywords) == [i \in 1..Len(keywords) |-> toLowerCase(keywords[i])]

\* Array.prototype.indexOf, 1-based; 0 when absent
indexOf(s, x) ==
    IF \E i \in 1..Len(s) : s[i] = x
    THEN CHOOSE i \in 1..Len(s) : s[i] = x /\ \A k \in 1..(i - 1) : s[k] # x
    ELSE 0

\* Array.prototype.splice(index, 1) for a 1-based index; no element is
\* removed when the array has no such index
removeAt(s, index) ==
    IF index \in 1..Len(s)
    THEN SubSeq(s, 1, index - 1) \o SubSeq(s, index + 1, Len(s))
    ELSE s

\* lowerParts.forEach: remove each part found, from both arrays
RECURSIVE removeParts(_, _, _)
removeParts(st, lowerParts, p) ==
    IF p > Len(lowerParts) THEN st
    ELSE LET index == indexOf(st.lowerKeywords, lowerParts[p])
         IN  IF index # 0
             THEN ApplyTo([result |-> removeAt(st.result, index),
                           lowerKeywords |-> removeAt(st.lowerKeywords, index)],
                          LAMBDA next : removeParts(next, lowerParts, p + 1))
             ELSE removeParts(st, lowerParts, p + 1)

\* the for loop of mergeCompoundWords over COMPOUND_WORDS.entries()
RECURSIVE mergeCompoundLoop(_, _)
mergeCompoundLoop(st, e) ==
    IF e > Len(COMPOUND_WORDS) THEN st
    ELSE LET compound   == COMPOUND_WORDS[e][1]
             lowerParts == toLowerCaseAll(COMPOUND_WORDS[e][2])
             allPartsExist == \A p \in 1..Len(lowerParts) :
                                 lowerParts[p] \in Range(st.lowerKeywords)
         IN  IF allPartsExist
             THEN ApplyTo(removeParts(st, lowerParts, 1),
                          LAMBDA removed :
                              mergeCompoundLoop([removed EXCEPT !.result = Append(@, compound)],
                                                e + 1))
             ELSE mergeCompoundLoop(st, e + 1)

mergeCompoundWords(keywords) ==
    mergeCompoundLoop([result |-> keywords, lowerKeywords |-> toLowerCaseAll(keywords)],
                      1).result

\* [...new Set(s)]: the first occurrence of every element, in order
RECURSIVE unique(_)
unique(s) ==
    IF s = <<>> THEN <<>>
    ELSE ApplyTo(unique(SubSeq(s, 1, Len(s) - 1)),
                 LAMBDA front : IF s[Len(s)] \in Range(front) THEN front
                                ELSE Append(front, s[Len(s)]))

\* the order of the default Array.prototype.sort: by UTF-16 code units
stringLess(a, b) ==
    \E i \in 1..(Min2(Len(a), Len(b)) + 1) :
        /\ \A k \in 1..(i - 1) : a[k] = b[k]
        /\ IF i > Len(a) THEN i <= Len(b)
           ELSE i <= Len(b) /\ a[i] < b[i]

\* Array.prototype.sort() (stable): insert each element behind the elements
\* that are not greater
RECURSIVE sortStrings(_)
sortStrings(s) ==
    IF s = <<>> THEN <<>>
    ELSE ApplyTo(sortStrings(SubSeq(s, 1, Len(s) - 1)),
                 LAMBDA front :
                     LET x == s[Len(s)]
                         n == Cardinality({k \in 1..Len(front) : ~stringLess(x, front[k])})
                     IN  SubSeq(front, 1, n) \o <<x>> \o SubSeq(front, n + 1, Len(front)))

DEFAULT_OPTIONS == [minLength |-> 3, maxLength |-> 20]

\* what keywordExtractor.extract(text, ...) does (the library is not part of
\* the sources): it returns a list of tokens, or throws
Extracted(tokens) == [threw |-> FALSE, tokens |-> tokens]
ExtractThrows     == [threw |-> TRUE, tokens |-> <<>>]

\* extractRawKeywords, steps 2 to 4: the tokens filtered by length and by
\* isValidKeyword, with the technology names standardized
standardizedKeywords(tokens) ==
    LET inLength(keyword) == /\ Len(keyword) >= DEFAULT_OPTIONS.minLength
                             /\ Len(keyword) <= DEFAULT_OPTIONS.maxLength
        lengthFiltered  == SelectSeq(tokens, inLength)
        qualityFiltered == SelectSeq(lengthFiltered, isValidKeyword)
    IN  standardizeTechNames(qualityFiltered)

\* extractRawKeywords from what keywordExtractor.extract did
extractRawKeywords(extracted) ==
    IF extracted.threw THEN <<>>
    ELSE LET standardized == standardizedKeywords(extracted.tokens)
             merged       == mergeCompoundWords(standardized)
         IN  sortStrings(unique(merged))

\* KEYWORD_CATEGORIES
KEYWORD_CATEGORIES ==
    [ hardSkills |-> <<
          <<106, 97, 118, 97, 115, 99, 114, 105, 112, 116>>,   \* javascript
          <<116, 121, 112, 101, 115, 99, 114, 105, 112, 116>>,   \* typescript
          <<112, 121, 116, 104, 111, 110>>,   \* python
          <<106, 97, 118, 97>>,   \* java
          <<99, 43, 43>>,   \* c++
          <<99, 35>>,   \* c#
          <<112, 104, 112>>,   \* php
          <<114, 117, 98, 121>>,   \* ruby
          <<103, 111>>,   \* go
          <<114, 117, 115, 116>>,   \* rust
          <<115, 119, 105, 102, 116>>,   \* swift
          <<107, 111, 116, 108, 105, 110>>,   \* kotlin
          <<115, 99, 97, 108, 97>>,   \* scala
          <<114>>,   \* r
          <<109, 97, 116, 108, 97, 98>>,   \* matlab
          <<115, 113, 108>>,   \* sql
          <<104, 116, 109, 108>>,   \* html
          <<99, 115, 115>>,   \* css
          <<115, 97, 115, 115>>,   \* sass
          <<108, 101, 115, 115>>,   \* less
          <<114, 101, 97, 99, 116>>,   \* react
          <<118, 117, 101>>,   \* vue
          <<97, 110, 103, 117, 108, 97, 114>>,   \* angular
          <<110, 111, 100, 101, 46, 106, 115>>,   \* node.js
          <<101, 120, 112, 114, 101, 115, 115>>,   \* express
          <<100, 106, 97, 110, 103, 111>>,   \* django
          <<102, 108, 97, 115, 107>>,   \* flask
          <<115, 112, 114, 105, 110, 103>>,   \* spring
          <<108, 97, 114, 97, 118, 101, 108>>,   \* laravel
          <<114, 97, 105, 108, 115>>,   \* rails
          <<110, 101, 120, 116, 46, 106, 115>>,   \* next.js
          <<110, 117, 120, 116, 46, 106, 115>>,   \* nuxt.js
          <<115, 118, 101, 108, 116, 101>>,   \* svelte
          <<101, 109, 98, 101, 114>>,   \* ember
          <<98, 97, 99, 107, 98, 111, 110, 101>>,   \* backbone
          <<106, 113, 117, 101, 114, 121>>,   \* jquery
          <<98, 111, 111, 116, 115, 116, 114, 97, 112>>,   \* bootstrap
          <<116, 97, 105, 108, 119, 105, 110, 100>>,   \* tailwind
          <<109, 121, 115, 113, 108>>,   \* mysql
          <<112, 111, 115, 116, 103, 114, 101, 115, 113, 108>>,   \* postgresql
          <<109, 111, 110, 103, 111, 100, 98>>,   \* mongodb
          <<114, 101, 100, 105, 115>>,   \* redis
          <<101, 108, 97, 115, 116, 105, 99, 115, 101, 97, 114, 99, 104>>,   \* elasticsearch
          <<111, 114, 97, 99, 108, 101>>,   \* oracle
          <<115, 113, 108, 105, 116, 101>>,   \* sqlite
          <<99, 97, 115, 115, 97, 110, 100, 114, 97>>,   \* cassandra
          <<100, 121, 110, 97, 109, 111, 100, 98>>,   \* dynamodb
          <<102, 105, 114, 101, 98, 97, 115, 101>>,   \* firebase
          <<115, 117, 112, 97, 98, 97, 115, 101>>,   \* supabase
          <<97, 119, 115>>,   \* aws
          <<97, 122, 117, 114, 101>>,   \* azure
          <<103, 99, 112>>,   \* gcp
          <<100, 111, 99, 107, 101, 114>>,   \* docker
          <<107, 117, 98, 101, 114, 110, 101, 116, 101, 115>>,   \* kubernetes
          <<106, 101, 110, 107, 105, 110, 115>>,   \* jenkins
          <<103, 105, 116, 108, 97, 98>>,   \* gitlab
          <<103, 105, 116, 104, 117, 98>>,   \* github
          <<116, 101, 114, 114, 97, 102, 111, 114, 109>>,   \* terraform
          <<97, 110, 115, 105, 98, 108, 101>>,   \* ansible
          <<99, 104, 101, 102>>,   \* chef
          <<112, 117, 112, 112, 101, 116>>,   \* puppet
          <<118, 97, 103, 114, 97, 110, 116>>,   \* vagrant
          <<110, 103, 105, 110, 120>>,   \* nginx
          <<97, 112, 97, 99, 104, 101>>,   \* apache
          <<103, 105, 116>>,   \* git
          <<115, 118, 110>>,   \* svn
          <<106, 105, 114, 97>>,   \* jira
          <<99, 111, 110, 102, 108, 117, 101, 110, 99, 101>>,   \* confluence
          <<115, 108, 97, 99, 107>>,   \* slack
          <<102, 105, 103, 109, 97>>,   \* figma
          <<115, 107, 101, 116, 99, 104>>,   \* sketch
          <<112, 104, 111, 116, 111, 115, 104, 111, 112>>,   \* photoshop
          <<105, 108, 108, 117, 115, 116, 114, 97, 116, 111, 114>>,   \* illustrator
          <<112, 111, 115, 116, 109, 97, 110>>,   \* postman
          <<115, 119, 97, 103, 103, 101, 114>>,   \* swagger
          <<103, 114, 97, 112, 104, 113, 108>>,   \* graphql
          <<114, 101, 115, 116>>,   \* rest
          <<97, 112, 105>>,   \* api
          <<109, 105, 99, 114, 111, 115, 101, 114, 118, 105, 99, 101, 115>>,   \* microservices
          <<115, 101, 114, 118, 101, 114, 108, 101, 115, 115>>   \* serverless
      >>,
      softSkills |-> <<
          <<108, 101, 97, 100, 101, 114, 115, 104, 105, 112>>,   \* leadership
          <<99, 111, 109, 109, 117, 110, 105, 99, 97, 116, 105, 111, 110>>,   \* communication
          <<116, 101, 97, 109, 119, 111, 114, 107>>,   \* teamwork
          <<99, 111, 108, 108, 97, 98, 111, 114, 97, 116, 105, 111, 110>>,   \* collaboration
          <<112, 114, 111, 98, 108, 101, 109, 45, 115, 111, 108, 118, 105, 110, 103>>,   \* problem-solving
          <<97, 110, 97, 108, 121, 116, 105, 99, 97, 108>>,   \* analytical
          <<99, 114, 101, 97, 116, 105, 118, 101>>,   \* creative
          <<105, 110, 110, 111, 118, 97, 116, 105, 118, 101>>,   \* innovative
          <<97, 100, 97, 112, 116, 97, 98, 108, 101>>,   \* adaptable
          <<102, 108, 101, 120, 105, 98, 108, 101>>,   \* flexible
          <<111, 114, 103, 97, 110, 105, 122, 101, 100>>,   \* organized
          <<100, 101, 116, 97, 105, 108, 45, 111, 114, 105, 101, 110, 116, 101, 100>>,   \* detail-oriented
          <<116, 105, 109, 101, 45, 109, 97, 110, 97, 103, 101, 109, 101, 110, 116>>,   \* time-management
          <<109, 117, 108, 116, 105, 116, 97, 115, 107, 105, 110, 103>>,   \* multitasking
          <<115, 101, 108, 102, 45, 109, 111, 116, 105, 118, 97, 116, 101, 100>>,   \* self-motivated
          <<112, 114, 111, 97, 99, 116, 105, 118, 101>>,   \* proactive
          <<105, 110, 105, 116, 105, 97, 116, 105, 118, 101>>,   \* initiative
          <<99, 114, 105, 116, 105, 99, 97, 108, 45, 116, 104, 105, 110, 107, 105, 110, 103>>,   \* critical-thinking
          <<100, 101, 99, 105, 115, 105, 111, 110, 45, 109, 97, 107, 105, 110, 103>>,   \* decision-making
          <<110, 101, 103, 111, 116, 105, 97, 116, 105, 111, 110>>,   \* negotiation
          <<112, 114, 101, 115, 101, 110, 116, 97, 116, 105, 111, 110>>,   \* presentation
          <<112, 117, 98, 108, 105, 99, 45, 115, 112, 101, 97, 107, 105, 110, 103>>,   \* public-speaking
          <<109, 101, 110, 116, 111, 114, 105, 110, 103>>,   \* mentoring
          <<99, 111, 97, 99, 104, 105, 110, 103>>,   \* coaching
          <<116, 114, 97, 105, 110, 105, 110, 103>>,   \* training
          <<99, 117, 115, 116, 111, 109, 101, 114, 45, 115, 101, 114, 118, 105, 99, 101>>,   \* customer-service
          <<99, 108, 105, 101, 110, 116, 45, 102, 97, 99, 105, 110, 103>>   \* client-facing
      >>,
      jobTitles |-> <<
          <<100, 101, 118, 101, 108, 111, 112, 101, 114>>,   \* developer
          <<101, 110, 103, 105, 110, 101, 101, 114>>,   \* engineer
          <<112, 114, 111, 103, 114, 97, 109, 109, 101, 114>>,   \* programmer
          <<97, 114, 99, 104, 105, 116, 101, 99, 116>>,   \* architect
          <<109, 97, 110, 97, 103, 101, 114>>,   \* manager
          <<100, 105, 114, 101, 99, 116, 111, 114>>,   \* director
          <<108, 101, 97, 100>>,   \* lead
          <<115, 101, 110, 105, 111, 114>>,   \* senior
          <<106, 117, 110, 105, 111, 114>>,   \* junior
          <<112, 114, 105, 110, 99, 105, 112, 97, 108>>,   \* principal
          <<115, 116, 97, 102, 102>>,   \* staff
          <<99, 111, 110, 115, 117, 108, 116, 97, 110, 116>>,   \* consultant
          <<97, 110, 97, 108, 121, 115, 116>>,   \* analyst
          <<115, 112, 101, 99, 105, 97, 108, 105, 115, 116>>,   \* specialist
          <<99, 111, 111, 114, 100, 105, 110, 97, 116, 111, 114>>,   \* coordinator
          <<97, 100, 109, 105, 110, 105, 115, 116, 114, 97, 116, 111, 114>>,   \* administrator
          <<100, 101, 115, 105, 103, 110, 101, 114>>,   \* designer
          <<114, 101, 115, 101, 97, 114, 99, 104, 101, 114>>,   \* researcher
          <<115, 99, 105, 101, 110, 116, 105, 115, 116>>,   \* scientist
          <<116, 101, 99, 104, 110, 105, 99, 105, 97, 110>>,   \* technician
          <<105, 110, 116, 101, 114, 110>>,   \* intern
          <<102, 114, 111, 110, 116, 101, 110, 100>>,   \* frontend
          <<98, 97, 99, 107, 101, 110, 100>>,   \* backend
          <<102, 117, 108, 108, 115, 116, 97, 99, 107>>,   \* fullstack
          <<102, 117, 108, 108, 45, 115, 116, 97, 99, 107>>,   \* full-stack
          <<100, 101, 118, 111, 112, 115>>,   \* devops
          <<115, 114, 101>>,   \* sre
          <<113, 97>>,   \* qa
          <<113, 101>>,   \* qe
          <<112, 114, 111, 100, 117, 99, 116, 45, 109, 97, 110, 97, 103, 101, 114>>,   \* product-manager
          <<112, 114, 111, 106, 101, 99, 116, 45, 109, 97, 110, 97, 103, 101, 114>>,   \* project-manager
          <<115, 99, 114, 117, 109, 45, 109, 97, 115, 116, 101, 114>>,   \* scrum-master
          <<116, 101, 99, 104, 45, 108, 101, 97, 100>>,   \* tech-lead
          <<116, 101, 97, 109, 45, 108, 101, 97, 100>>   \* team-lead
      >>,
      certifications |-> <<
          <<97, 119, 115, 45, 99, 101, 114, 116, 105, 102, 105, 101, 100>>,   \* aws-certified
          <<97, 122, 117, 114, 101, 45, 99, 101, 114, 116, 105, 102, 105, 101, 100>>,   \* azure-certified
          <<103, 99, 112, 45, 99, 101, 114, 116, 105, 102, 105, 101, 100>>,   \* gcp-certified
          <<99, 105, 115, 115, 112>>,   \* cissp
          <<99, 105, 115, 109>>,   \* cism
          <<99, 105, 115, 97>>,   \* cisa
          <<112, 109, 112>>,   \* pmp
          <<115, 99, 114, 117, 109, 45, 109, 97, 115, 116, 101, 114>>,   \* scrum-master
          <<112, 114, 111, 100, 117, 99, 116, 45, 111, 119, 110, 101, 114>>,   \* product-owner
          <<105, 116, 105, 108>>,   \* itil
          <<115, 105, 120, 45, 115, 105, 103, 109, 97>>,   \* six-sigma
          <<108, 101, 97, 110>>,   \* lean
          <<97, 103, 105, 108, 101>>,   \* agile
          <<115, 97, 102, 101>>,   \* safe
          <<99, 111, 109, 112, 116, 105, 97>>,   \* comptia
          <<99, 105, 115, 99, 111>>,   \* cisco
          <<109, 105, 99, 114, 111, 115, 111, 102, 116>>,   \* microsoft
          <<111, 114, 97, 99, 108, 101>>,   \* oracle
          <<115, 97, 108, 101, 115, 102, 111, 114, 99, 101>>,   \* salesforce
          <<103, 111, 111, 103, 108, 101, 45, 97, 110, 97, 108, 121, 116, 105, 99, 115>>,   \* google-analytics
          <<104, 117, 98, 115, 112, 111, 116>>,   \* hubspot
          <<102, 97, 99, 101, 98, 111, 111, 107, 45, 98, 108, 117, 101, 112, 114, 105, 110, 116>>,   \* facebook-blueprint
          <<103, 111, 111, 103, 108, 101, 45, 97, 100, 115>>,   \* google-ads
          <<108, 105, 110, 107, 101, 100, 105, 110, 45, 99, 101, 114, 116, 105, 102, 105, 101, 100>>   \* linkedin-certified
      >>,
      tools |-> <<
          <<118, 105, 115, 117, 97, 108, 45, 115, 116, 117, 100, 105, 111>>,   \* visual-studio
          <<118, 115, 99, 111, 100, 101>>,   \* vscode
          <<105, 110, 116, 101, 108, 108, 105, 106>>,   \* intellij
          <<101, 99, 108, 105, 112, 115, 101>>,   \* eclipse
          <<120, 99, 111, 100, 101>>,   \* xcode
          <<97, 110, 100, 114, 111, 105, 100, 45, 115, 116, 117, 100, 105, 111>>,   \* android-studio
          <<115, 117, 98, 108, 105, 109, 101, 45, 116, 101, 120, 116>>,   \* sublime-text
          <<97, 116, 111, 109>>,   \* atom
          <<118, 105, 109>>,   \* vim
          <<101, 109, 97, 99, 115>>,   \* emacs
          <<110, 111, 116, 101, 112, 97, 100, 43, 43>>,   \* notepad++
          <<99, 104, 114, 111, 109, 101>>,   \* chrome
          <<102, 105, 114, 101, 102, 111, 120>>,   \* firefox
          <<115, 97, 102, 97, 114, 105>>,   \* safari
          <<101, 100, 103, 101>>,   \* edge
          <<112, 111, 115, 116, 109, 97, 110>>,   \* postman
          <<105, 110, 115, 111, 109, 110, 105, 97>>,   \* insomnia
          <<116, 97, 98, 108, 101, 97, 117>>,   \* tableau
          <<112, 111, 119, 101, 114, 45, 98, 105>>,   \* power-bi
          <<101, 120, 99, 101, 108>>,   \* excel
          <<103, 111, 111, 103, 108, 101, 45, 115, 104, 101, 101, 116, 115>>,   \* google-sheets
          <<103, 111, 111, 103, 108, 101, 45, 97, 110, 97, 108, 121, 116, 105, 99, 115>>,   \* google-analytics
          <<115, 97, 108, 101, 115, 102, 111, 114, 99, 101>>,   \* salesforce
          <<104, 117, 98, 115, 112, 111, 116>>,   \* hubspot
          <<109, 97, 105, 108, 99, 104, 105, 109, 112>>,   \* mailchimp
          <<119, 111, 114, 100, 112, 114, 101, 115, 115>>,   \* wordpress
          <<115, 104, 111, 112, 105, 102, 121>>,   \* shopify
          <<122, 111, 111, 109>>,   \* zoom
          <<116, 101, 97, 109, 115>>,   \* teams
          <<115, 108, 97, 99, 107>>,   \* slack
          <<100, 105, 115, 99, 111, 114, 100>>,   \* discord
          <<110, 111, 116, 105, 111, 110>>,   \* notion
          <<116, 114, 101, 108, 108, 111>>,   \* trello
          <<97, 115, 97, 110, 97>>   \* asana
      >> ]

\* k.toLowerCase().replace(/[^a-z0-9]/g, '-')
normalizeForMatching(k) ==
    [i \in 1..Len(k) |->
        LET c == toLowerCase(k)[i]
        IN  IF IsLowerAZ(c) \/ IsDigit(c) THEN c ELSE 45]

\* similarity of extractor.ts (its levenshteinDistance is the same function)
similarity(str1, str2) ==
    LET longer  == IF Len(str1) > Len(str2) THEN str1 ELSE str2
        shorter == IF Len(str1) > Len(str2) THEN str2 ELSE str1
    IN  IF Len(longer) = 0 THEN One
        ELSE Q(Len(longer) - levenshteinDistance(longer, shorter), Len(longer))

\* categoryKeywords.some((ck) => keyword.includes(ck) || ck.includes(keyword)
\*                               || keyword === ck || similarity(keyword, ck) > 0.8)
matchesCategory(keyword, categoryKeywords) ==
    \E i \in 1..Len(categoryKeywords) :
        \/ includes(keyword, categoryKeywords[i])
        \/ includes(categoryKeywords[i], keyword)
        \/ keyword = categoryKeywords[i]
        \/ QLt(Q(8, 10), similarity(keyword, categoryKeywords[i]))

\* /\.(js|ts|py|java|cpp|cs|php|rb|go|rs)$/
HARD_SKILL_EXTENSIONS ==
    { <<46, 106, 115>>,   \* .js
      <<46, 116, 115>>,   \* .ts
      <<46, 112, 121>>,   \* .py
      <<46, 106, 97, 118, 97>>,   \* .java
      <<46, 99, 112, 112>>,   \* .cpp
      <<46, 99, 115>>,   \* .cs
      <<46, 112, 104, 112>>,   \* .php
      <<46, 114, 98>>,   \* .rb
      <<46, 103, 111>>,   \* .go
      <<46, 114, 115>>    \* .rs
    }

\* /^(api|sdk|cli|gui|ui|ux)$/
HARD_SKILL_ABBREVIATIONS ==
    { <<97, 112, 105>>,   \* api
      <<115, 100, 107>>,   \* sdk
      <<99, 108, 105>>,   \* cli
      <<103, 117, 105>>,   \* gui
      <<117, 105>>,   \* ui
      <<117, 120>>    \* ux
    }

\* /(framework|library|database|server|client)$/
HARD_SKILL_SUFFIXES ==
    { <<102, 114, 97, 109, 101, 119, 111, 114, 107>>,   \* framework
      <<108, 105, 98, 114, 97, 114, 121>>,   \* library
      <<100, 97, 116, 97, 98, 97, 115, 101>>,   \* database
      <<115, 101, 114, 118, 101, 114>>,   \* server
      <<99, 108, 105, 101, 110, 116>>    \* client
    }

\* the three softSkillPatterns
SOFT_SKILL_SUFFIXES ==
    { <<109, 97, 110, 97, 103, 101, 109, 101, 110, 116>>,   \* management
      <<108, 101, 97, 100, 101, 114, 115, 104, 105, 112>>,   \* leadership
      <<99, 111, 109, 109, 117, 110, 105, 99, 97, 116, 105, 111, 110>>,   \* communication
      <<99, 111, 108, 108, 97, 98, 111, 114, 97, 116, 105, 111, 110>>,   \* collaboration
      <<99, 114, 101, 97, 116, 105, 118, 101>>,   \* creative
      <<105, 110, 110, 111, 118, 97, 116, 105, 118, 101>>,   \* innovative
      <<97, 110, 97, 108, 121, 116, 105, 99, 97, 108>>,   \* analytical
      <<115, 116, 114, 97, 116, 101, 103, 105, 99>>,   \* strategic
      <<111, 114, 105, 101, 110, 116, 101, 100>>,   \* oriented
      <<102, 111, 99, 117, 115, 101, 100>>,   \* focused
      <<100, 114, 105, 118, 101, 110>>,   \* driven
      <<109, 105, 110, 100, 101, 100>>    \* minded
    }

\* the first two jobTitlePatterns
JOB_TITLE_SUFFIXES ==
    { <<100, 101, 118, 101, 108, 111, 112, 101, 114>>,   \* developer
      <<101, 110, 103, 105, 110, 101, 101, 114>>,   \* engineer
      <<109, 97, 110, 97, 103, 101, 114>>,   \* manager
      <<100, 105, 114, 101, 99, 116, 111, 114>>,   \* director
      <<108, 101, 97, 100>>,   \* lead
      <<115, 101, 110, 105, 111, 114>>,   \* senior
      <<106, 117, 110, 105, 111, 114>>,   \* junior
      <<97, 110, 97, 108, 121, 115, 116>>,   \* analyst
      <<115, 112, 101, 99, 105, 97, 108, 105, 115, 116>>,   \* specialist
      <<99, 111, 111, 114, 100, 105, 110, 97, 116, 111, 114>>,   \* coordinator
      <<97, 100, 109, 105, 110, 105, 115, 116, 114, 97, 116, 111, 114>>    \* administrator
    }

\* /^(head|chief|vp|vice)$/
JOB_TITLE_WORDS ==
    { <<104, 101, 97, 100>>,   \* head
      <<99, 104, 105, 101, 102>>,   \* chief
      <<118, 112>>,   \* vp
      <<118, 105, 99, 101>>    \* vice
    }

endsWithAny(s, suffixSet) == \E suffix \in suffixSet : endsWith(s, suffix)

isLikelyHardSkill(keyword) ==
    \/ endsWithAny(keyword, HARD_SKILL_EXTENSIONS)
    \/ keyword \in HARD_SKILL_ABBREVIATIONS
    \/ Len(keyword) > 0 /\ IsDigit(keyword[Len(keyword)])      \* /\d+(\.\d+)?$/
    \/ endsWithAny(keyword, HARD_SKILL_SUFFIXES)

isLikelySoftSkill(keyword) == endsWithAny(keyword, SOFT_SKILL_SUFFIXES)

isLikelyJobTitle(keyword) ==
    \/ endsWithAny(keyword, JOB_TITLE_SUFFIXES)
    \/ keyword \in JOB_TITLE_WORDS

\* the category a normalized keyword is pushed to, or "none"
categoryOfKeyword(keyword) ==
    LET matching == {c \in 1..Len(CategoryKeys) :
                        matchesCategory(keyword, KEYWORD_CATEGORIES[CategoryKeys[c]])}
    IN  IF matching # {}
        THEN CategoryKeys[CHOOSE c \in matching : \A d \in matching : c <= d]
        ELSE IF isLikelyHardSkill(keyword) THEN "hardSkills"
        ELSE IF isLikelySoftSkill(keyword) THEN "softSkills"
        ELSE IF isLikelyJobTitle(keyword) THEN "jobTitles"
        ELSE "none"

\* categorizeKeywords with `result` kept between calls instead of being
\* created by each call
categorizeKeywords_sharedResult(keywords) ==
    ApplyTo([i \in 1..Len(keywords) |-> categoryOfKeyword(normalizeForMatching(keywords[i]))],
            LAMBDA assigned :
                [c \in Categories |->
                    LET pushed(i) == assigned[i] = c
                        indices == SelectSeq([i \in 1..Len(keywords) |-> i], pushed)
                        earlier == IF scan.pc = "categorized"
                                   THEN scan.log[Len(scan.log)].result[c]
                                   ELSE <<>>
                    IN  sortStrings(unique(earlier \o [j \in 1..Len(indices) |-> keywords[indices[j]]]))])

categorizeKeywords(keywords) ==
    ApplyTo([i \in 1..Len(keywords) |-> categoryOfKeyword(normalizeForMatching(keywords[i]))],
            LAMBDA assigned :
                [c \in Categories |->
                    LET pushed(i) == assigned[i] = c
                        indices == SelectSeq([i \in 1..Len(keywords) |-> i], pushed)
                    IN  sortStrings(unique([j \in 1..Len(indices) |-> keywords[indices[j]]]))])

-----------------------------------------------------------------------------
(* EnhancedKeywordExtractor (keywords/enhanced-extractor.ts) *)

\* /^\d{1,2}[\/\-]\d{1,2}[\/\-]\d{2,4}$/
DateLike(s) ==
    \E a \in 1..2, b \in 1..2, c \in 2..4 :
        /\ Len(s) = a + b + c + 2
        /\ AllDigits(SubSeq(s, 1, a))
        /\ s[a + 1] \in {47, 45}
        /\ AllDigits(SubSeq(s, a + 2, a + b + 1))
        /\ s[a + b + 2] \in {47, 45}
        /\ AllDigits(SubSeq(s, a + b + 3, Len(s)))

\* /^[\d\-\(\)\+\s]+$/
PhoneLike(s) ==
    /\ Len(s) > 0
    /\ \A i \in 1..Len(s) : IsDigit(s[i]) \/ s[i] \in {45, 40, 41, 43} \/ IsSpace(s[i])

\* /^[a-zA-Z0-9._%+-]+@[a-zA-Z0-9.-]+\.[a-zA-Z]{2,}$/
EmailLike(s) ==
    \E at \in 2..Len(s) : \E dot \in (at + 2)..(Len(s) - 2) :
        /\ s[at] = 64
        /\ \A i \in 1..(at - 1) :
              IsLetter(s[i]) \/ IsDigit(s[i]) \/ s[i] \in {46, 95, 37, 43, 45}
        /\ \A i \in (at + 1)..(dot - 1) :
              IsLetter(s[i]) \/ IsDigit(s[i]) \/ s[i] \in {46, 45}
        /\ s[dot] = 46
        /\ AllLetters(SubSeq(s, dot + 1, Len(s)))

\* /^[ivxlcdm]+$/i
RomanNumeral(s) ==
    /\ Len(s) > 0
    /\ \A i \in 1..Len(s) : toLowerCase(s)[i] \in {105, 118, 120, 108, 99, 100, 109}

\* /^\d+[a-z]{1,2}$/
Ordinal(s) ==
    \E b \in 1..2 :
        /\ Len(s) > b
        /\ AllDigits(SubSeq(s, 1, Len(s) - b))
        /\ \A i \in (Len(s) - b + 1)..Len(s) : IsLowerAZ(s[i])

\* /^\d+[a-zA-Z]/
VersionLike(s) ==
    \E a \in 1..(Len(s) - 1) : AllDigits(SubSeq(s, 1, a)) /\ IsLetter(s[a + 1])

\* the noisePatterns that are lists of words: months, days, ordinal suffixes,
\* time indicators, company suffixes, titles
NOISE_WORDS ==
    { <<106, 97, 110>>,   \* jan
      <<102, 101, 98>>,   \* feb
      <<109, 97, 114>>,   \* mar
      <<97, 112, 114>>,   \* apr
      <<109, 97, 121>>,   \* may
      <<106, 117, 110>>,   \* jun
      <<106, 117, 108>>,   \* jul
      <<97, 117, 103>>,   \* aug
      <<115, 101, 112>>,   \* sep
      <<111, 99, 116>>,   \* oct
      <<110, 111, 118>>,   \* nov
      <<100, 101, 99>>,   \* dec
      <<106, 97, 110, 117, 97, 114, 121>>,   \* january
      <<102, 101, 98, 114, 117, 97, 114, 121>>,   \* february
      <<109, 97, 114, 99, 104>>,   \* march
      <<97, 112, 114, 105, 108>>,   \* april
      <<106, 117, 110, 101>>,   \* june
      <<106, 117, 108, 121>>,   \* july
      <<97, 117, 103, 117, 115, 116>>,   \* august
      <<115, 101, 112, 116, 101, 109, 98, 101, 114>>,   \* september
      <<111, 99, 116, 111, 98, 101, 114>>,   \* october
      <<110, 111, 118, 101, 109, 98, 101, 114>>,   \* november
      <<100, 101, 99, 101, 109, 98, 101, 114>>,   \* december
      <<109, 111, 110>>,   \* mon
      <<116, 117, 101>>,   \* tue
      <<119, 101, 100>>,   \* wed
      <<116, 104, 117>>,   \* thu
      <<102, 114, 105>>,   \* fri
      <<115, 97, 116>>,   \* sat
      <<115, 117, 110>>,   \* sun
      <<109, 111, 110, 100, 97, 121>>,   \* monday
      <<116, 117, 101, 115, 100, 97, 121>>,   \* tuesday
      <<119, 101, 100, 110, 101, 115, 100, 97, 121>>,   \* wednesday
      <<116, 104, 117, 114, 115, 100, 97, 121>>,   \* thursday
      <<102, 114, 105, 100, 97, 121>>,   \* friday
      <<115, 97, 116, 117, 114, 100, 97, 121>>,   \* saturday
      <<115, 117, 110, 100, 97, 121>>,   \* sunday
      <<115, 116>>,   \* st
      <<110, 100>>,   \* nd
      <<114, 100>>,   \* rd
      <<116, 104>>,   \* th
      <<97, 109>>,   \* am
      <<112, 109>>,   \* pm
      <<105, 110, 99>>,   \* inc
      <<108, 108, 99>>,   \* llc
      <<108, 116, 100>>,   \* ltd
      <<99, 111, 114, 112>>,   \* corp
      <<99, 111>>,   \* co
      <<109, 114>>,   \* mr
      <<109, 114, 115>>,   \* mrs
      <<109, 115>>,   \* ms
      <<100, 114>>,   \* dr
      <<112, 114, 111, 102>>    \* prof
    }

\* the last noisePattern: common stop words
NOISE_STOP_WORDS ==
    { <<116, 104, 101>>,   \* the
      <<97, 110, 100>>,   \* and
      <<111, 114>>,   \* or
      <<98, 117, 116>>,   \* but
      <<105, 110>>,   \* in
      <<111, 110>>,   \* on
      <<97, 116>>,   \* at
      <<116, 111>>,   \* to
      <<102, 111, 114>>,   \* for
      <<111, 102>>,   \* of
      <<119, 105, 116, 104>>,   \* with
      <<98, 121>>,   \* by
      <<102, 114, 111, 109>>,   \* from
      <<97, 115>>,   \* as
      <<105, 115>>,   \* is
      <<119, 97, 115>>,   \* was
      <<97, 114, 101>>,   \* are
      <<119, 101, 114, 101>>,   \* were
      <<98, 101>>,   \* be
      <<98, 101, 101, 110>>,   \* been
      <<104, 97, 118, 101>>,   \* have
      <<104, 97, 115>>,   \* has
      <<104, 97, 100>>,   \* had
      <<100, 111>>,   \* do
      <<100, 111, 101, 115>>,   \* does
      <<100, 105, 100>>,   \* did
      <<119, 105, 108, 108>>,   \* will
      <<119, 111, 117, 108, 100>>,   \* would
      <<99, 111, 117, 108, 100>>,   \* could
      <<115, 104, 111, 117, 108, 100>>,   \* should
      <<109, 97, 121>>,   \* may
      <<109, 105, 103, 104, 116>>,   \* might
      <<99, 97, 110>>,   \* can
      <<109, 117, 115, 116>>    \* must
    }

isHighQualityKeyword(keyword) ==
    LET lowerKeyword == trim(toLowerCase(keyword))
        noise == \/ Len(lowerKeyword) > 0 /\ AllDigits(lowerKeyword)
                 \/ Len(lowerKeyword) = 4 /\ AllDigits(lowerKeyword)
                 \/ DateLike(lowerKeyword)
                 \/ PhoneLike(lowerKeyword)
                 \/ EmailLike(lowerKeyword)
                 \/ lowerKeyword \in NOISE_WORDS
                 \/ RomanNumeral(lowerKeyword)
                 \/ Ordinal(lowerKeyword)
                 \/ NoLetters(lowerKeyword)
                 \/ lowerKeyword \in NOISE_STOP_WORDS
    IN  IF Len(lowerKeyword) < 2 \/ Len(lowerKeyword) > 25 THEN FALSE
        ELSE IF noise THEN FALSE
        ELSE IF Len(lowerKeyword) = 1 THEN FALSE
        ELSE IF IsDigit(lowerKeyword[1]) /\ ~VersionLike(lowerKeyword) THEN FALSE
        ELSE /\ CountLetters(lowerKeyword) > 0
             /\ 2 * CountLetters(lowerKeyword) >= Len(lowerKeyword)   \* letterRatio >= 0.5

\* calculateSmartPriority: languages and frameworks
PRIORITY_TECH_WORDS ==
    { <<106, 97, 118, 97, 115, 99, 114, 105, 112, 116>>,   \* javascript
      <<116, 121, 112, 101, 115, 99, 114, 105, 112, 116>>,   \* typescript
      <<112, 121, 116, 104, 111, 110>>,   \* python
      <<106, 97, 118, 97>>,   \* java
      <<114, 101, 97, 99, 116>>,   \* react
      <<97, 110, 103, 117, 108, 97, 114>>,   \* angular
      <<118, 117, 101>>,   \* vue
      <<110, 111, 100, 101>>,   \* node
      <<101, 120, 112, 114, 101, 115, 115>>,   \* express
      <<115, 112, 114, 105, 110, 103>>,   \* spring
      <<100, 106, 97, 110, 103, 111>>,   \* django
      <<102, 108, 97, 115, 107>>    \* flask
    }

\* calculateSmartPriority: platforms and tooling
PRIORITY_PLATFORM_WORDS ==
    { <<97, 119, 115>>,   \* aws
      <<97, 122, 117, 114, 101>>,   \* azure
      <<103, 99, 112>>,   \* gcp
      <<100, 111, 99, 107, 101, 114>>,   \* docker
      <<107, 117, 98, 101, 114, 110, 101, 116, 101, 115>>,   \* kubernetes
      <<103, 105, 116>>,   \* git
      <<103, 105, 116, 104, 117, 98>>,   \* github
      <<103, 105, 116, 108, 97, 98>>,   \* gitlab
      <<106, 101, 110, 107, 105, 110, 115>>,   \* jenkins
      <<116, 101, 114, 114, 97, 102, 111, 114, 109>>    \* terraform
    }

\* calculateSmartPriority: databases
PRIORITY_DATABASE_WORDS ==
    { <<109, 121, 115, 113, 108>>,   \* mysql
      <<112, 111, 115, 116, 103, 114, 101, 115, 113, 108>>,   \* postgresql
      <<109, 111, 110, 103, 111, 100, 98>>,   \* mongodb
      <<114, 101, 100, 105, 115>>,   \* redis
      <<101, 108, 97, 115, 116, 105, 99, 115, 101, 97, 114, 99, 104>>,   \* elasticsearch
      <<111, 114, 97, 99, 108, 101>>,   \* oracle
      <<115, 113, 108, 105, 116, 101>>    \* sqlite
    }

\* calculateSmartPriority: professional terms
PROFESSIONAL_SUFFIXES ==
    { <<100, 101, 118, 101, 108, 111, 112, 101, 114>>,   \* developer
      <<101, 110, 103, 105, 110, 101, 101, 114>>,   \* engineer
      <<97, 114, 99, 104, 105, 116, 101, 99, 116>>,   \* architect
      <<109, 97, 110, 97, 103, 101, 114>>,   \* manager
      <<97, 110, 97, 108, 121, 115, 116>>,   \* analyst
      <<115, 112, 101, 99, 105, 97, 108, 105, 115, 116>>,   \* specialist
      <<99, 111, 110, 115, 117, 108, 116, 97, 110, 116>>,   \* consultant
      <<108, 101, 97, 100>>,   \* lead
      <<115, 101, 110, 105, 111, 114>>,   \* senior
      <<106, 117, 110, 105, 111, 114>>    \* junior
    }

\* calculateSmartPriority: experience terms
EXPERIENCE_SUFFIXES ==
    { <<101, 120, 112, 101, 114, 105, 101, 110, 99, 101>>,   \* experience
      <<115, 107, 105, 108, 108, 101, 100>>,   \* skilled
      <<112, 114, 111, 102, 105, 99, 105, 101, 110, 116>>,   \* proficient
      <<101, 120, 112, 101, 114, 116>>,   \* expert
      <<97, 100, 118, 97, 110, 99, 101, 100>>,   \* advanced
      <<105, 110, 116, 101, 114, 109, 101, 100, 105, 97, 116, 101>>,   \* intermediate
      <<98, 101, 103, 105, 110, 110, 101, 114>>    \* beginner
    }

\* calculateSmartPriority: stop words
PRIORITY_STOP_WORDS ==
    { <<97>>,   \* a
      <<97, 110>>,   \* an
      <<116, 104, 101>>,   \* the
      <<97, 110, 100>>,   \* and
      <<111, 114>>,   \* or
      <<98, 117, 116>>,   \* but
      <<105, 110>>,   \* in
      <<111, 110>>,   \* on
      <<97, 116>>,   \* at
      <<116, 111>>,   \* to
      <<102, 111, 114>>,   \* for
      <<111, 102>>,   \* of
      <<119, 105, 116, 104>>,   \* with
      <<98, 121>>    \* by
    }

\* score += amount when the condition holds
Bonus(condition, amount) == IF condition THEN Q(amount, 1) ELSE Zero

\* keywords are never empty here: isHighQualityKeyword has passed them
calculateSmartPriority(keyword, allKeywords) ==
    LET lowerKeyword == toLowerCase(keyword)
        length == Len(keyword)
        lengthScore == IF length >= 3 /\ length <= 15 THEN QMin(Q(3 * length, 2), Q(15, 1))
                       ELSE IF length > 15 /\ length <= 20 THEN Q(8, 1)
                       ELSE Zero
        properCase == /\ length >= 2
                      /\ IsUpperAZ(keyword[1])
                      /\ \A i \in 2..length : IsLowerAZ(keyword[i])
        acronym    == /\ length >= 2 /\ length <= 6
                      /\ \A i \in 1..length : IsUpperAZ(keyword[i])
        frequency  == Cardinality({i \in 1..Len(allKeywords) :
                                      toLowerCase(allKeywords[i]) = lowerKeyword})
        special    == \E i \in 1..length :
                          ~(IsLetter(keyword[i]) \/ IsDigit(keyword[i])
                            \/ keyword[i] \in {45, 46} \/ IsSpace(keyword[i]))
        score == QSumSeq(<<
            lengthScore,
            Bonus(properCase, 8),
            Bonus(acronym, 6),
            Bonus(includes(keyword, <<45>>), 5),
            Bonus(includes(keyword, <<46>>), 4),
            Bonus(endsWith(lowerKeyword, <<105, 110, 103>>), 3),
            Bonus(lowerKeyword \in PRIORITY_TECH_WORDS, 10),
            Bonus(lowerKeyword \in PRIORITY_PLATFORM_WORDS, 10),
            Bonus(lowerKeyword \in PRIORITY_DATABASE_WORDS, 10),
            Bonus(endsWithAny(lowerKeyword, PROFESSIONAL_SUFFIXES), 8),
            Bonus(endsWithAny(lowerKeyword, EXPERIENCE_SUFFIXES), 6),
            Bonus(frequency > 1, Min2(frequency * 2, 8)),
            Q(5 * CountLetters(keyword), length),
            Bonus(length > 0 /\ AllDigits(keyword), -50),
            Bonus(length < 3, -20),
            Bonus(special, -10),
            Bonus(lowerKeyword \in PRIORITY_STOP_WORDS, -30) >>)
    IN  IF QLt(score, Zero) THEN Zero ELSE score

\* scored.sort((a, b) => b.score - a.score): stable, descending
RECURSIVE sortByScore(_)
sortByScore(scored) ==
    IF scored = <<>> THEN <<>>
    ELSE ApplyTo(sortByScore(SubSeq(scored, 1, Len(scored) - 1)),
                 LAMBDA front :
                     LET x == scored[Len(scored)]
                         n == Cardinality({k \in 1..Len(front) : QLe(x.score, front[k].score)})
                     IN  SubSeq(front, 1, n) \o <<x>> \o SubSeq(front, n + 1, Len(front)))

\* prioritizeKeywordsForValidation without the slice: every clean keyword is
\* returned
prioritizeKeywordsForValidation_noSlice(keywords, maxCount) ==
    LET cleanKeywords == SelectSeq(keywords, isHighQualityKeyword)
        scored == [i \in 1..Len(cleanKeywords) |->
                      [keyword |-> cleanKeywords[i],
                       score |-> calculateSmartPriority(cleanKeywords[i], keywords)]]
        prioritized == sortByScore(scored)
    IN  [i \in 1..Len(prioritized) |-> prioritized[i].keyword]

prioritizeKeywordsForValidation(keywords, maxCount) ==
    LET cleanKeywords == SelectSeq(keywords, isHighQualityKeyword)
        scored == [i \in 1..Len(cleanKeywords) |->
                      [keyword |-> cleanKeywords[i],
                       score |-> calculateSmartPriority(cleanKeywords[i], keywords)]]
        prioritized == sliceTo(sortByScore(scored), maxCount)
    IN  [i \in 1..Len(prioritized) |-> prioritized[i].keyword]

\* if (!list.includes(x)) list.push(x)
pushIfAbsent(list, x) == IF x \in Range(list) THEN list ELSE Append(list, x)

RECURSIVE pushAllIfAbsent(_, _)
pushAllIfAbsent(list, xs) ==
    IF xs = <<>> THEN list ELSE pushAllIfAbsent(pushIfAbsent(list, Head(xs)), Tail(xs))

\* what one validated result adds to its category
mergeResult(list, result) ==
    LET withKeyword == pushIfAbsent(list, result.keyword)
        withTitle   == IF result.escoMatch # Undefined /\ QLt(Q(8, 10), result.confidence)
                       THEN pushIfAbsent(withKeyword, result.escoMatch.title)
                       ELSE withKeyword
    IN  IF QLt(Q(9, 10), result.confidence)
        THEN pushAllIfAbsent(withTitle, sliceTo(result.suggestions, 2))
        ELSE withTitle

\* the mutant of mergeLoop: every result is merged, validated or not
RECURSIVE mergeLoop_addAll(_, _, _, _)
mergeLoop_addAll(enhanced, validationResults, confidenceThreshold, i) ==
    IF i > Len(validationResults) THEN [threw |-> FALSE, value |-> enhanced]
    ELSE LET result == validationResults[i]
         IN  IF result.category \notin DOMAIN enhanced
             THEN [threw |-> TRUE]
             ELSE ApplyTo([enhanced EXCEPT ![result.category] = mergeResult(@, result)],
                          LAMBDA next : mergeLoop_addAll(next, validationResults,
                                                         confidenceThreshold, i + 1))

\* the for loop of mergeESCOResults.  enhanced[category] is undefined for a
\* category that is not a key of ExtractedKeywords, and .includes on it
\* throws a TypeError
RECURSIVE mergeLoop(_, _, _, _)
mergeLoop(enhanced, validationResults, confidenceThreshold, i) ==
    IF i > Len(validationResults) THEN [threw |-> FALSE, value |-> enhanced]
    ELSE LET result == validationResults[i]
         IN  IF result.isValidated /\ QLe(confidenceThreshold, result.confidence)
             THEN IF result.category \notin DOMAIN enhanced
                  THEN [threw |-> TRUE]
                  ELSE ApplyTo([enhanced EXCEPT ![result.category] = mergeResult(@, result)],
                               LAMBDA next : mergeLoop(next, validationResults,
                                                       confidenceThreshold, i + 1))
             ELSE mergeLoop(enhanced, validationResults, confidenceThreshold, i + 1)

mergeESCOResults(basicKeywords, validationResults, confidenceThreshold) ==
    LET merged == mergeLoop(basicKeywords, validationResults, confidenceThreshold, 1)
    IN  IF merged.threw THEN merged
        ELSE [threw |-> FALSE,
              value |-> [c \in Categories |-> sortStrings(unique(merged.value[c]))]]

\* Object.values(keywords).flat()
flatKeywords(keywords) == flat([c \in 1..Len(CategoryKeys) |-> keywords[CategoryKeys[c]]])

\* Number(x.toFixed(1)) for x >= 0
toFixed1(x) == Q(QRound(QMul(x, Q(10, 1))), 10)

\* generateStats without industryDiversity, which is derived from the titles
\* of the matches for display and read by nothing else
generateStats(basicKeywords, validationResults) ==
    LET totalKeywords == Len(flatKeywords(basicKeywords))
        isValidated(r) == r.isValidated
        validatedCount == Len(SelectSeq(validationResults, isValidated))
        validationRate == IF totalKeywords > 0
                          THEN Q(validatedCount * 100, totalKeywords) ELSE Zero
        suggestions == flat([i \in 1..Len(validationResults) |->
                                validationResults[i].suggestions])
    IN  [totalKeywords |-> totalKeywords,
         validatedCount |-> validatedCount,
         validationRate |-> toFixed1(validationRate),
         suggestedKeywords |-> sliceTo(unique(suggestions), 10)]

ExtractionResult(basicKeywords, validatedKeywords, validationResults) ==
    [basicKeywords |-> basicKeywords,
     validatedKeywords |-> validatedKeywords,
     validationResults |-> validationResults,
     stats |-> generateStats(basicKeywords, validationResults)]

Options(enableESCOValidation, escoConfidenceThreshold, maxKeywordsToValidate) ==
    [enableESCOValidation |-> enableESCOValidation,
     escoConfidenceThreshold |-> escoConfidenceThreshold,
     maxKeywordsToValidate |-> maxKeywordsToValidate]

\* extractAndValidate up to the await of escoClient.validateKeywords, or to
\* its return when there is nothing to validate.  extracted is what
\* keywordExtractor.extract gave for the text
extractBegin(st, extracted, options, t) ==
    LET rawKeywords == extractRawKeywords(extracted)
    IN  ApplyTo(rawKeywords, LAMBDA raw :
        ApplyTo(categorizeKeywords(raw), LAMBDA basicKeywords :
            IF options.enableESCOValidation /\ Len(raw) > 0
            THEN ApplyTo(prioritizeKeywordsForValidation(raw, options.maxKeywordsToValidate),
                         LAMBDA keywordsToValidate :
                             LET started == startBatch(st, keywordsToValidate, t)
                             IN  [st |-> started.st,
                                  batch |-> started.batch,
                                  frame |-> [pc |-> "validating",
                                             options |-> options,
                                             rawKeywords |-> raw,
                                             basicKeywords |-> basicKeywords,
                                             keywordsToValidate |-> keywordsToValidate]])
            ELSE [st |-> st,
                  batch |-> NoBatch,
                  frame |-> [pc |-> "returned",
                             options |-> options,
                             rawKeywords |-> raw,
                             basicKeywords |-> basicKeywords,
                             keywordsToValidate |-> <<>>,
                             caught |-> FALSE,
                             result |-> ExtractionResult(basicKeywords, basicKeywords, <<>>)]]))

ExtractSettled(frame, b) ==
    frame.pc = "returned" \/ b.status \in {"resolved", "rejected"}

\* extractEnd with a catch block that keeps the validation results
extractEnd_keepResults(frame, b) ==
    IF frame.pc = "returned" THEN frame
    ELSE LET merged == IF b.status = "rejected" THEN [threw |-> TRUE]
                       ELSE mergeESCOResults(frame.basicKeywords, b.results,
                                             frame.options.escoConfidenceThreshold)
         IN  ApplyTo(merged, LAMBDA m :
                 [frame EXCEPT !.pc = "returned"] @@
                 [caught |-> m.threw,
                  result |-> IF m.threw
                             THEN ExtractionResult(frame.basicKeywords, frame.basicKeywords,
                                                   IF b.status = "rejected" THEN <<>> ELSE b.results)
                             ELSE ExtractionResult(frame.basicKeywords, m.value, b.results)])

\* extractAndValidate after the await: the try block runs to its end, or the
\* catch block falls back to the basic keywords
extractEnd(frame, b) ==
    IF frame.pc = "returned" THEN frame
    ELSE LET merged == IF b.status = "rejected" THEN [threw |-> TRUE]
                       ELSE mergeESCOResults(frame.basicKeywords, b.results,
                                             frame.options.escoConfidenceThreshold)
         IN  ApplyTo(merged, LAMBDA m :
                 [frame EXCEPT !.pc = "returned"] @@
                 [caught |-> m.threw,
                  result |-> IF m.threw
                             THEN ExtractionResult(frame.basicKeywords, frame.basicKeywords, <<>>)
                             ELSE ExtractionResult(frame.basicKeywords, m.value, b.results)])

-----------------------------------------------------------------------------
(* SpecScore: ATSScorer.calculateScore on arbitrary arguments *)

JdTerms     == {AWS, TypeScript}
ResumeTerms == {aws, typescript}

\* the sequences without repetition over S, of length at most n
RECURSIVE ListsOver(_, _)
ListsOver(S, n) ==
    IF n = 0 THEN {<<>>}
    ELSE LET shorter == ListsOver(S, n - 1)
         IN  shorter \cup {Append(l, x) : l \in shorter, x \in S}

NoRepeat(l) == \A i, j \in 1..Len(l) : i # j => l[i] # l[j]

TotalLen(kw) == SumSeq([i \in 1..Len(CategoryKeys) |-> Len(kw[CategoryKeys[i]])])

\* ExtractedKeywords values: every category present, at most n terms in all,
\* no term twice in a category
KeywordSets(S, n) ==
    LET lists == {l \in ListsOver(S, n) : NoRepeat(l)}
    IN  {kw \in [Categories -> lists] : TotalLen(kw) <= n}

\* weights before the change recorded in the comments of types.ts:110-114
PREVIOUS_SCORING_WEIGHTS ==
    [hardSkills |-> Q(45, 100), jobTitle |-> Q(25, 100), softSkills |-> Q(15, 100),
     certifications |-> Q(10, 100), tools |-> Q(5, 100)]

WeightConfigs == {DEFAULT_SCORING_WEIGHTS, PREVIOUS_SCORING_WEIGHTS}

\* Map<string, number> values: the default argument (an empty map) and a
\* map that is skewed, has zeros and lacks the key "SQL" (keys are
\* case-sensitive)
SkewedTfIdf ==
    [t \in {AWS, aws, Java, java, TypeScript} |->
        IF t = AWS THEN 3 ELSE IF t = Java THEN 1 ELSE IF t = TypeScript THEN 2 ELSE 0]

UniformTfIdf == [t \in {AWS, aws, Java, java, SQL, sql, TypeScript, typescript} |-> 1]

TfIdfMaps == {<<>>, SkewedTfIdf}

EscoValidatedSets == {{}, {aws, typescript}}

InitScore ==
    /\ weights \in WeightConfigs
    /\ jdKeywords \in KeywordSets(JdTerms, MaxJdTerms)
    /\ resumeKeywords \in KeywordSets(ResumeTerms, MaxResumeTerms)
    /\ tfIdfWeights \in TfIdfMaps
    /\ escoValidated \in EscoValidatedSets
    /\ scoreResult = NoResult
    /\ ClientIdle
    /\ scan = NoScan

\* atsScorer.calculateScore(jdKeywords, resumeKeywords, tfIdfWeights, escoValidated)
CalculateScore ==
    /\ ~scoreResult.done
    /\ scoreResult' = calculateScore(weights, jdKeywords, resumeKeywords,
                                     tfIdfWeights, escoValidated)
    /\ UNCHANGED <<weights, jdKeywords, resumeKeywords, tfIdfWeights, escoValidated>>
    /\ UNCHANGED <<clientVars, scan>>

NextScore == CalculateScore

SpecScore == InitScore /\ [][NextScore]_vars

-----------------------------------------------------------------------------
(* SpecDimension: calculateScore on arguments that fill one category, with
   longer lists *)

DimensionJdTerms     == {Java, SQL, AWS, aws}
DimensionResumeTerms == {java, sql, aws}

OnlyCategory(c, l) == [k \in Categories |-> IF k = c THEN l ELSE <<>>]

InitDimension ==
    /\ weights = DEFAULT_SCORING_WEIGHTS
    /\ \E c \in Categories, c2 \in Categories :
          /\ c2 \in {c, "tools"}
          /\ \E l \in ListsOver(DimensionJdTerms, MaxCategoryTerms) :
                /\ NoRepeat(l)
                /\ jdKeywords = OnlyCategory(c, l)
          /\ \E l \in ListsOver(DimensionResumeTerms, MaxResumeCategoryTerms) :
                /\ NoRepeat(l)
                /\ resumeKeywords = OnlyCategory(c2, l)
    /\ tfIdfWeights \in TfIdfMaps \cup {UniformTfIdf}
    /\ escoValidated = {aws, java}
    /\ scoreResult = NoResult
    /\ ClientIdle
    /\ scan = NoScan

SpecDimension == InitDimension /\ [][NextScore]_vars

-----------------------------------------------------------------------------
(* SpecLevel: getScoreLevel on every integer score *)

InitLevel ==
    /\ weights = DEFAULT_SCORING_WEIGHTS
    /\ jdKeywords = OnlyCategory("hardSkills", <<>>)
    /\ resumeKeywords = OnlyCategory("hardSkills", <<>>)
    /\ tfIdfWeights = <<>>
    /\ escoValidated = {}
    /\ \E s \in SCORE_LEVELS[5].min .. SCORE_LEVELS[1].max :
          scoreResult = [done |-> FALSE, totalScore |-> s]
    /\ ClientIdle
    /\ scan = NoScan

\* const level = this.getScoreLevel(totalScore)
GetScoreLevel ==
    /\ ~scoreResult.done
    /\ scoreResult' = [done |-> TRUE, totalScore |-> scoreResult.totalScore,
                       level |-> getScoreLevel(scoreResult.totalScore)]
    /\ UNCHANGED <<weights, jdKeywords, resumeKeywords, tfIdfWeights, escoValidated>>
    /\ UNCHANGED <<clientVars, scan>>

NextLevel == GetScoreLevel

SpecLevel == InitLevel /\ [][NextLevel]_vars

-----------------------------------------------------------------------------
(* SpecClient: validateKeyword calls on one ESCOAPIClient, each awaited by its
   caller before the next is made, the ESCO service answering each request in
   any of the ways fetch allows, and time passing.  (Calls that run
   concurrently are those of validateKeywords, in SpecBatch.) *)

MaxCalls == 2
MaxTicks == 2

ScorerIdle ==
    /\ weights = DEFAULT_SCORING_WEIGHTS
    /\ jdKeywords = OnlyCategory("hardSkills", <<>>)
    /\ resumeKeywords = OnlyCategory("hardSkills", <<>>)
    /\ tfIdfWeights = <<>>
    /\ escoValidated = {}
    /\ scoreResult = NoResult

awsPadded   == <<32, 97, 119, 115, 32>>     \* " aws "
awsEngineer == <<97, 119, 115, 32, 101, 110, 103, 105, 110, 101, 101, 114>>   \* "aws engineer"

\* keyword arguments: two spellings of one normalized keyword
ClientKeywords == {AWS, awsPadded}

SkillAws == Skill(AWS, <<>>, "knowledge", "sector-specific")
OccupationAwsEngineer == Occupation(awsEngineer, <<>>)

\* what data._embedded?.results is in a well-formed 200 response
SkillPayloads      == {Undefined, ArrayOf(<<SkillAws>>)}
OccupationPayloads == {ArrayOf(<<OccupationAwsEngineer>>)}

\* fetch rejects; response.ok is false; response.json() rejects
FailureKinds == {"networkError", "notOk", "badJson"}

Outcomes(type) ==
    {[kind |-> k] : k \in FailureKinds}
    \cup {[kind |-> "ok", results |-> p] :
            p \in IF type = "skills" THEN SkillPayloads ELSE OccupationPayloads}

\* the passages of time between two steps: the lifetime of a validation
\* record and the lifetime of a search result
TickSteps == {validationCacheExpiry, cacheExpiry}

Elapsed == now - StartTime

\* the number of Tick steps that make up an elapsed time
ticksTaken(e) ==
    (e \div cacheExpiry) + ((e % cacheExpiry) \div validationCacheExpiry)

InitClient ==
    /\ ScorerIdle
    /\ ClientIdle
    /\ scan = NoScan

\* escoClient.validateKeyword(keyword), to its first await
ValidateKeyword(keyword) ==
    /\ Len(calls) < MaxCalls
    /\ \A i \in 1..Len(calls) : calls[i].pc # "awaiting"
    /\ SetClientState(startCall(ClientState, keyword, now))
    /\ UNCHANGED <<now, batch, scorerVars, scan>>

\* the fetch of request r settles and the search method runs to its return
FetchRespond(r, outcome) ==
    /\ r \in fetches
    /\ SetClientState(settleFetch(ClientState, r, outcome, now))
    /\ UNCHANGED <<now, batch, scorerVars, scan>>

\* Promise.all has settled: validateKeyword runs to its return or throws
FinishValidate(id) ==
    /\ id \in 1..Len(calls)
    /\ CallSettled(calls[id])
    /\ SetClientState(finishCall(ClientState, id, now))
    /\ UNCHANGED <<now, batch, scorerVars, scan>>

\* Date.now() advances (while a call can still observe it)
Tick(d) ==
    /\ ticksTaken(Elapsed) < MaxTicks
    /\ Len(calls) < MaxCalls
    /\ now' = now + d
    /\ UNCHANGED <<cache, validationCache, fetches, netLog, calls, batch,
                   scorerVars, scan>>

NextClient ==
    \/ \E keyword \in ClientKeywords : ValidateKeyword(keyword)
    \/ \E r \in fetches : \E outcome \in Outcomes(r.type) : FetchRespond(r, outcome)
    \/ \E id \in 1..Len(calls) : FinishValidate(id)
    \/ \E d \in TickSteps : Tick(d)

SpecClient == InitClient /\ [][NextClient]_vars

-----------------------------------------------------------------------------
(* SpecBatch: one validateKeywords call on a fresh ESCOAPIClient; a 200
   response may also carry a payload of the wrong shape *)

MaxBatchTerms == 2

BatchTerms == {AWS, awsPadded, Java}

\* string[] arguments of validateKeywords
BatchInputs == ListsOver(BatchTerms, MaxBatchTerms)

\* _embedded.results of the wrong shape: {} instead of an array
MalformedPayloads == {PlainObject}

BatchOutcomes(type) ==
    Outcomes(type) \cup {[kind |-> "ok", results |-> p] : p \in MalformedPayloads}

InitBatch ==
    /\ ScorerIdle
    /\ ClientIdle
    /\ scan = NoScan

\* escoClient.validateKeywords(keywords), to its first await
ValidateKeywords(keywords) ==
    /\ batch.status = "idle"
    /\ LET started == startBatch(ClientState, keywords, now)
       IN  /\ SetClientState(started.st)
           /\ batch' = started.batch
    /\ UNCHANGED <<now, scorerVars, scan>>

\* every validateKeyword call of the group has returned
BatchGroupSettled ==
    /\ batch.status = "running"
    /\ \A j \in 1..Len(batch.callIds) : calls[batch.callIds[j]].pc = "done"
    /\ batch' = groupSettled(batch, calls, now)
    /\ UNCHANGED <<cache, validationCache, now, fetches, netLog, calls,
                   scorerVars, scan>>

\* a validateKeyword call of the group has thrown: Promise.all rejects and
\* validateKeywords rejects with it
BatchRejected ==
    /\ batch.status = "running"
    /\ \E j \in 1..Len(batch.callIds) : calls[batch.callIds[j]].pc = "threw"
    /\ batch' = [batch EXCEPT !.status = "rejected"]
    /\ UNCHANGED <<cache, validationCache, now, fetches, netLog, calls,
                   scorerVars, scan>>

NextBatch ==
    \/ \E keywords \in BatchInputs : ValidateKeywords(keywords)
    \/ \E r \in fetches : \E outcome \in BatchOutcomes(r.type) : FetchRespond(r, outcome)
    \/ \E id \in 1..Len(calls) : FinishValidate(id)
    \/ BatchGroupSettled
    \/ BatchRejected

SpecBatch == InitBatch /\ [][NextBatch]_vars

-----------------------------------------------------------------------------
(* SpecExtract: one extractAndValidate call on a fresh ESCOAPIClient, with
   the options of its caller *)

MaxExtractTokens == 2

unix           == <<117, 110, 105, 120>>                       \* "unix"
cloudPlatforms == <<99, 108, 111, 117, 100, 32, 112, 108, 97, 116, 102, 111, 114, 109, 115>>   \* "cloud platforms"
awsCloud       == <<97, 119, 115, 32, 99, 108, 111, 117, 100>>   \* "aws cloud"

\* tokens keywordExtractor.extract returns (lower-cased by the library):
\* one that is a dictionary term and one that is in no category
ExtractTokens == {aws, unix}

\* results of keywordExtractor.extract: token lists without duplicates
\* (remove_duplicates: true), or an exception
Documents(tokens, n) ==
    {Extracted(l) : l \in {k \in ListsOver(tokens, n) : NoRepeat(k)}} \cup {ExtractThrows}

\* escoConfidenceThreshold: the default 0.7, one below and one above
ExtractThresholds == {Q(1, 2), Q(7, 10), Q(8, 10)}

\* options of extractAndValidate; maxKeywordsToValidate is the default 25, or 1
ExtractOptions ==
    {Options(enable, threshold, maxCount) :
        enable \in BOOLEAN, threshold \in ExtractThresholds, maxCount \in {1, 25}}

\* a skill that matches "aws" by an alternative label only
SkillCloud == Skill(cloudPlatforms, <<awsCloud>>, "skill", "sector-specific")

\* a skill whose title is the keyword in another case
SkillAwsLowerCase == Skill(aws, <<>>, "knowledge", "sector-specific")

awsDegree == <<65, 87, 83, 32, 100, 101, 103, 114, 101, 101>>   \* "AWS degree"

\* a knowledge entry that categorizeESCOSkill puts in 'education', which is
\* no key of ExtractedKeywords
SkillAwsDegree == Skill(awsDegree, <<>>, "knowledge", "sector-specific")

\* the service is down, or answers with one entry, or answers with
\* _embedded.results that is no array
ExtractOutcomes(type) ==
    {[kind |-> "networkError"]}
    \cup {[kind |-> "ok", results |-> p] :
            p \in IF type = "skills"
                  THEN {ArrayOf(<<SkillAws>>), ArrayOf(<<SkillCloud>>),
                        ArrayOf(<<SkillAwsLowerCase>>), ArrayOf(<<SkillAwsDegree>>),
                        PlainObject}
                  ELSE {ArrayOf(<<OccupationAwsEngineer>>)}}

InitExtract ==
    /\ ScorerIdle
    /\ ClientIdle
    /\ scan = NoScan

\* enhancedExtractor.extractAndValidate(text, options), to its first await
\* or to its return
ExtractAndValidate(extracted, options) ==
    /\ scan.pc = "idle"
    /\ \E begun \in {extractBegin(ClientState, extracted, options, now)} :
          /\ SetClientState(begun.st)
          /\ batch' = begun.batch
          /\ scan' = [pc |-> "extract", frame |-> begun.frame]
    /\ UNCHANGED <<now, scorerVars>>

\* validateKeywords has resolved or rejected: extractAndValidate runs to its
\* return
ExtractReturn ==
    /\ scan.pc = "extract"
    /\ scan.frame.pc = "validating"
    /\ batch.status \in {"resolved", "rejected"}
    /\ \E ended \in {extractEnd(scan.frame, batch)} :
          scan' = [scan EXCEPT !.frame = ended]
    /\ UNCHANGED <<clientVars, scorerVars>>

NextExtract ==
    \/ \E extracted \in Documents(ExtractTokens, MaxExtractTokens) :
          \E options \in ExtractOptions : ExtractAndValidate(extracted, options)
    \/ \E r \in fetches : \E outcome \in ExtractOutcomes(r.type) : FetchRespond(r, outcome)
    \/ \E id \in 1..Len(calls) : FinishValidate(id)
    \/ BatchGroupSettled
    \/ BatchRejected
    \/ ExtractReturn

SpecExtract == InitExtract /\ [][NextExtract]_vars

\* the steps the program takes by itself once the awaited promises have
\* settled.  A fetch settles when the service answers: no line of the client
\* bounds the wait (no AbortController, no signal, no Promise.race), so the
\* answer is not a step the program can count on
ExtractProgramStep ==
    \/ \E id \in 1..Len(calls) : FinishValidate(id)
    \/ BatchGroupSettled
    \/ BatchRejected
    \/ ExtractReturn

\* SpecExtract with the event loop running every continuation that is ready
SpecExtractLive == SpecExtract /\ WF_vars(ExtractProgramStep)

-----------------------------------------------------------------------------
(* SpecScan: one scan request: the POST handler of the ats-checker route runs
   extractAndValidate on the job description, then on the resume, and the
   keyword sets are scored.  The ESCOAPIClient is the module's singleton: its
   caches are empty, or hold what an earlier scan left in them *)

MaxScanTokens == 1

ScanTokens == {aws, unix}

JD_OPTIONS     == Options(TRUE, Q(7, 10), 20)
RESUME_OPTIONS == Options(TRUE, Q(7, 10), 25)

ScanOutcomes(type) ==
    {[kind |-> "networkError"]}
    \cup {[kind |-> "ok", results |-> p] :
            p \in IF type = "skills" THEN {ArrayOf(<<SkillAws>>)}
                  ELSE {ArrayOf(<<OccupationAwsEngineer>>)}}

FreshClient ==
    [cache |-> <<>>, validationCache |-> <<>>, fetches |-> {}, netLog |-> <<>>,
     calls |-> <<>>]

\* the client after an earlier validateKeyword("AWS") that the service
\* answered; the frames and the log of that call are gone
WarmClient ==
    LET started  == startCall(FreshClient, AWS, StartTime)
        skills   == settleFetch(started, Request(1, "skills", aws),
                                [kind |-> "ok", results |-> ArrayOf(<<SkillAws>>)], StartTime)
        settled  == settleFetch(skills, Request(1, "occupations", aws),
                                [kind |-> "ok", results |-> ArrayOf(<<OccupationAwsEngineer>>)],
                                StartTime)
        finished == finishCall(settled, 1, StartTime)
    IN  [finished EXCEPT !.netLog = <<>>, !.calls = <<>>]

InitScan ==
    /\ ScorerIdle
    /\ \E st \in {FreshClient, WarmClient} :
          /\ cache = st.cache
          /\ validationCache = st.validationCache
          /\ fetches = st.fetches
          /\ netLog = st.netLog
          /\ calls = st.calls
    /\ now = StartTime
    /\ batch = NoBatch
    /\ scan = NoScan

\* jdEnhanced.validatedKeywords[c].filter(k => resume[c].some(r => same ignoring case))
matchingByCategory(jdKws, resumeKws) ==
    [c \in Categories |-> matchedKeywordsOf(jdKws[c], resumeKws[c])]

missingByCategory(jdKws, resumeKws) ==
    [c \in Categories |-> missingKeywordsOf(jdKws[c], resumeKws[c])]

\* the set handed to the scorer as escoValidated: the lower-cased keywords of
\* the results marked validated
validatedTerms(validationResults) ==
    {toLowerCase(validationResults[i].keyword) :
        i \in {k \in 1..Len(validationResults) : validationResults[k].isValidated}}

\* TF-IDF weights of calculateTfIdfWeights (computed by the natural library)
ScanTfIdfMaps == {<<>>, UniformTfIdf}

\* a string value of the form data, and the text of a parsed file
Str(value) == [shape |-> "string", value |-> value]

blank == <<32, 10>>   \* " \n"

\* formData.get('jobDescription'): null, or a string that is empty, white
\* space only, or has a term
JobDescriptions == {Null, Str(<<>>), Str(blank), Str(aws)}

\* ParsedDocument, as far as the route reads it
ParsedDocument(success, text) == [success |-> success, text |-> text]

\* what extractTextFromFile resolves with (the PDF and DOCX parsers are
\* libraries): a failure, or a text that is empty, white space only, or has
\* a term
ParseResults ==
    {ParsedDocument(FALSE, <<>>), ParsedDocument(TRUE, <<>>),
     ParsedDocument(TRUE, blank), ParsedDocument(TRUE, aws)}

\* the form data of a request and what parsing its file gives
ScanRequests ==
    [file : BOOLEAN, jobDescription : JobDescriptions, parseResult : ParseResults]

\* the mutant of requestError: the job description is not trimmed
requestError_noTrim(request) ==
    IF ~request.file THEN "Resume file is required"
    ELSE IF request.jobDescription.shape = "null" \/ request.jobDescription.value = <<>>
         THEN "Job description is required"
    ELSE IF ~request.parseResult.success \/ request.parseResult.text = <<>>
         THEN "Failed to extract text from resume"
    ELSE "none"

\* POST, "Validate inputs" and the check of parseResult: the error of the
\* 400 response, or "none"
requestError(request) ==
    IF ~request.file THEN "Resume file is required"
    ELSE IF request.jobDescription.shape = "null"
            \/ trim(request.jobDescription.value) = <<>>
         THEN "Job description is required"
    ELSE IF ~request.parseResult.success \/ request.parseResult.text = <<>>
         THEN "Failed to extract text from resume"
    ELSE "none"

\* POST with a request that fails a check: the 400 response
ScanReject(request) ==
    /\ scan.pc = "idle"
    /\ requestError(request) # "none"
    /\ scan' = [pc |-> "rejected", request |-> request, status |-> 400,
                error |-> requestError(request)]
    /\ UNCHANGED <<clientVars, scorerVars>>

\* POST with a request that passes the checks: the job description reaches
\* extractAndValidate; jobDescription is what keywordExtractor.extract gives
\* for its text
ScanPost(request, jobDescription) ==
    /\ scan.pc = "idle"
    /\ requestError(request) = "none"
    /\ \E begun \in {extractBegin(ClientState, jobDescription, JD_OPTIONS, now)} :
          /\ SetClientState(begun.st)
          /\ batch' = begun.batch
          /\ scan' = [pc |-> "jd", request |-> request, frame |-> begun.frame]
    /\ UNCHANGED <<now, scorerVars>>

\* extractAndValidate(jobDescription) returns; the resume text, first read
\* here, reaches extractAndValidate
ScanJdReturned(resumeText) ==
    /\ scan.pc = "jd"
    /\ ExtractSettled(scan.frame, batch)
    /\ \E jd \in {extractEnd(scan.frame, batch)} :
       \E begun \in {extractBegin(ClientState, resumeText, RESUME_OPTIONS, now)} :
          /\ SetClientState(begun.st)
          /\ batch' = begun.batch
          /\ scan' = [pc |-> "resume", request |-> scan.request,
                      jdEnhanced |-> jd.result, frame |-> begun.frame]
    /\ UNCHANGED <<now, scorerVars>>

\* extractAndValidate(resumeText) returns; the matching is computed, the
\* validated sets are scored and the response is sent
ScanRespond(tf) ==
    /\ scan.pc = "resume"
    /\ ExtractSettled(scan.frame, batch)
    /\ \E resume \in {extractEnd(scan.frame, batch)} :
          LET jdEnhanced     == scan.jdEnhanced
              resumeEnhanced == resume.result
          IN  /\ scan' = [pc |-> "responded",
                          request |-> scan.request,
                          jdEnhanced |-> jdEnhanced,
                          resumeEnhanced |-> resumeEnhanced,
                          matchingByCategory |->
                              matchingByCategory(jdEnhanced.validatedKeywords,
                                                 resumeEnhanced.validatedKeywords),
                          missingByCategory |->
                              missingByCategory(jdEnhanced.validatedKeywords,
                                                resumeEnhanced.validatedKeywords)]
              /\ jdKeywords' = jdEnhanced.validatedKeywords
              /\ resumeKeywords' = resumeEnhanced.validatedKeywords
              /\ tfIdfWeights' = tf
              /\ escoValidated' = validatedTerms(jdEnhanced.validationResults
                                                 \o resumeEnhanced.validationResults)
              /\ \E result \in {calculateScore(weights, jdKeywords', resumeKeywords',
                                               tfIdfWeights', escoValidated')} :
                    scoreResult' = result
    /\ UNCHANGED <<clientVars, weights>>

NextScan ==
    \/ \E request \in ScanRequests : ScanReject(request)
    \/ \E request \in ScanRequests :
          \E jobDescription \in Documents(ScanTokens, MaxScanTokens) :
             ScanPost(request, jobDescription)
    \/ \E resumeText \in Documents(ScanTokens, MaxScanTokens) : ScanJdReturned(resumeText)
    \/ \E r \in fetches : \E outcome \in ScanOutcomes(r.type) : FetchRespond(r, outcome)
    \/ \E id \in 1..Len(calls) : FinishValidate(id)
    \/ BatchGroupSettled
    \/ \E tf \in ScanTfIdfMaps : ScanRespond(tf)

SpecScan == InitScan /\ [][NextScan]_vars

-----------------------------------------------------------------------------
(* Claims about the scorer *)

\* C1: every per-category DimensionScore.score lies in [0,1] and totalScore
\* is an integer in [0,100], for every argument of calculateScore.
C1_ScoresInRange ==
    scoreResult.done =>
        /\ \A dim \in Dimensions :
              /\ QLe(Zero, scoreResult.dimensionScores[dim].score)
              /\ QLe(scoreResult.dimensionScores[dim].score, One)
        /\ scoreResult.totalScore \in 0..100

\* a scored state where two dimensions have JD terms and one reaches score 1
C1_Witness ==
    /\ scoreResult.done
    /\ Cardinality({dim \in Dimensions : scoreResult.dimensionScores[dim].total > 0}) >= 2
    /\ \E dim \in Dimensions : scoreResult.dimensionScores[dim].score = One
    /\ scoreResult.totalScore > 0

\* the dimensions whose JD list is not empty, read from the arguments
Participating == {dim \in Dimensions : Len(jdKeywords[dimensionCategory(dim)]) > 0}

RECURSIVE QSumOver(_, _)
QSumOver(S, f) ==
    IF S = {} THEN Zero
    ELSE LET x == CHOOSE y \in S : TRUE IN QAdd(f[x], QSumOver(S \ {x}, f))

AltWeightValues == {Zero, Q(1, 20), Q(1, 2), One}

\* C6: a category with zero JD terms never contributes to the aggregate:
\* replacing the weight of any dimension whose JD list is empty by any other
\* weight leaves totalScore as it is.
C6_EmptyCategoryWeightIrrelevant ==
    scoreResult.done =>
        \A dim \in Dimensions \ Participating : \A alt \in AltWeightValues :
            calculateFinalScore(scoreResult.dimensionScores,
                                [weights EXCEPT ![dim] = alt]) = scoreResult.totalScore

\* a scored state with an empty dimension, a non-empty one and a total above 0
C6_Witness ==
    /\ scoreResult.done
    /\ Participating # {}
    /\ Len(jdKeywords["hardSkills"]) = 0
    /\ scoreResult.totalScore > 0

\* C7: totalScore is round(100 * sum(score_c * weight_c) / sum(weight_c))
\* over exactly the dimensions whose JD list is not empty, and 0 when every
\* JD list is empty.  T is the rounding of x iff T <= x + 1/2 < T + 1.
C7_TotalIsNormalizedWeightedSum ==
    scoreResult.done =>
        IF Participating = {} THEN scoreResult.totalScore = 0
        ELSE LET num == QSumOver(Participating,
                           [dim \in Dimensions |->
                               QMul(scoreResult.dimensionScores[dim].score, weights[dim])])
                 den == QSumOver(Participating, weights)
                 x   == QMul(Q(100, 1), QDiv(num, den))
                 T   == scoreResult.totalScore
             IN  /\ 2 * T * x.d <= 2 * x.n + x.d
                 /\ 2 * x.n + x.d < 2 * (T + 1) * x.d

\* the scenario of the specification: JD terms only in hardSkills and
\* jobTitles, default weights, so 0.5 and 0.25 are renormalized over 0.75
C7_Witness ==
    /\ scoreResult.done
    /\ weights = DEFAULT_SCORING_WEIGHTS
    /\ Participating = {"hardSkills", "jobTitle"}
    /\ scoreResult.dimensionScores["hardSkills"].score = One
    /\ scoreResult.dimensionScores["jobTitle"].score = Zero
    /\ scoreResult.totalScore = 67

\* the subsequence of s at the indices in I, in increasing order
RECURSIVE SubSeqAt(_, _, _)
SubSeqAt(s, I, i) ==
    IF i > Len(s) THEN <<>>
    ELSE (IF i \in I THEN <<s[i]>> ELSE <<>>) \o SubSeqAt(s, I, i + 1)

\* C8: in every category matchedKeywords is exactly the JD terms (JD casing,
\* JD order) whose lower-cased form is the lower-cased form of a resume term
\* of that category, missingKeywords is exactly the other JD terms, the two
\* counts add up to the total, and basicMatchRate is matched/total (0 when
\* the JD list is empty).
C8_MatchedMissingPartition ==
    scoreResult.done =>
        \A dim \in Dimensions :
            LET jd  == jdKeywords[dimensionCategory(dim)]
                res == resumeKeywords[dimensionCategory(dim)]
                folded == {toLowerCase(res[i]) : i \in 1..Len(res)}
                M   == {i \in 1..Len(jd) : toLowerCase(jd[i]) \in folded}
                d   == scoreResult.dimensionScores[dim]
            IN  /\ d.matchedKeywords = SubSeqAt(jd, M, 1)
                /\ d.missingKeywords = SubSeqAt(jd, (1..Len(jd)) \ M, 1)
                /\ d.matched = Cardinality(M)
                /\ d.total = Len(jd)
                /\ Len(d.matchedKeywords) + Len(d.missingKeywords) = d.total
                /\ d.basicMatchRate = IF Len(jd) = 0 THEN Zero
                                      ELSE Q(Cardinality(M), Len(jd))

\* JD hardSkills Java, SQL, AWS against a resume holding aws and java
C8_Witness ==
    /\ scoreResult.done
    /\ jdKeywords["hardSkills"] = <<Java, SQL, AWS>>
    /\ resumeKeywords["hardSkills"] = <<aws, java>>
    /\ scoreResult.dimensionScores["hardSkills"].matchedKeywords = <<Java, AWS>>
    /\ scoreResult.dimensionScores["hardSkills"].missingKeywords = <<SQL>>
    /\ scoreResult.dimensionScores["hardSkills"].basicMatchRate = Q(2, 3)

\* C9: every integer score in 0..100 lies in exactly one range of
\* SCORE_LEVELS (bounds inclusive), and getScoreLevel returns the label of
\* that range.
C9_LevelBucketsPartition ==
    scoreResult.done =>
        LET s == scoreResult.totalScore
            B == {i \in 1..Len(SCORE_LEVELS) :
                     SCORE_LEVELS[i].min <= s /\ s <= SCORE_LEVELS[i].max}
        IN  /\ Cardinality(B) = 1
            /\ \A i \in B : scoreResult.level = SCORE_LEVELS[i].label

\* the top of the scale: 100 is Excellent
C9_Witness ==
    /\ scoreResult.done
    /\ scoreResult.totalScore = 100
    /\ scoreResult.level = "Excellent"

-----------------------------------------------------------------------------
(* Claims about the ESCO client *)

\* the ValidationRecord held by a validation-cache entry
StoredRecord(entry) == [x \in (DOMAIN entry) \ {"timestamp"} |-> entry[x]]

\* C2: a validateKeyword call that finds a validation record of its
\* normalized term younger than the validation lifetime returns exactly that
\* record and sends no request to the ESCO service.
C2_RepeatWithinTtlServedFromCache ==
    \A i \in 1..Len(calls) :
        LET f == calls[i]
        IN  (f.validationRead.present /\ f.validationRead.age < validationCacheExpiry)
            => /\ f.requests = 0
               /\ f.pc = "done"
               /\ f.result = StoredRecord(f.validationRead.entry)

Expired(c, key, ttl) == key \in DOMAIN c /\ now - c[key].timestamp >= ttl
Fresh(c, key, ttl)   == key \in DOMAIN c /\ now - c[key].timestamp < ttl

viaOf(f, type)   == IF type = "skills" THEN f.skillsVia ELSE f.occupationsVia
valueOf(f, type) == IF type = "skills" THEN f.skills ELSE f.occupations

\* C3 as stated: a call that reads an expired validation record is not served
\* from it and sends a request to the ESCO service, and no value served from a
\* cache is as old as its lifetime.
C3_ExpiredRecordForcesRequest ==
    \A i \in 1..Len(calls) :
        LET f == calls[i]
        IN  /\ (f.validationRead.present /\ f.validationRead.age >= validationCacheExpiry)
                => (~f.fromValidationCache /\ f.requests > 0)
            /\ f.fromValidationCache => f.validationRead.age < validationCacheExpiry
            /\ f.skillsVia = "cache" => f.skillsRead.age < cacheExpiry
            /\ f.occupationsVia = "cache" => f.occupationsRead.age < cacheExpiry

\* C3, amended: in every step that starts a validateKeyword call, an expired
\* validation record is deleted and not served; each of the two searches is
\* served from the search cache exactly when its entry is younger than 24h
\* (and then sends no request), and otherwise its expired entry is deleted and
\* a request is sent; no value served from a cache is as old as its lifetime.
C3_ExpiryOnReadPerCache ==
    [][ Len(calls') = Len(calls) + 1 =>
        LET id   == Len(calls')
            f    == calls'[id]
            vkey == validationCacheKey(f.normalizedKeyword)
        IN  /\ Expired(validationCache, vkey, validationCacheExpiry)
                => (vkey \notin DOMAIN validationCache' /\ ~f.fromValidationCache)
            /\ f.fromValidationCache => Fresh(validationCache, vkey, validationCacheExpiry)
            /\ ~f.fromValidationCache =>
                \A type \in {"skills", "occupations"} :
                    LET key == searchCacheKey(type, f.normalizedKeyword, 3, DEFAULT_LANGUAGE)
                        req == Request(id, type, f.normalizedKeyword)
                    IN  /\ Expired(cache, key, cacheExpiry)
                            => (key \notin DOMAIN cache' /\ viaOf(f, type) = "pending")
                        /\ Fresh(cache, key, cacheExpiry)
                            => /\ viaOf(f, type) = "cache"
                               /\ valueOf(f, type) = cache[key].data
                               /\ req \notin fetches'
                        /\ ~Fresh(cache, key, cacheExpiry)
                            => /\ viaOf(f, type) = "pending"
                               /\ req \in fetches'
                               /\ req \in Range(netLog') \ Range(netLog)
      ]_vars

\* a call has read an expired validation record, an expired skills entry and
\* a live occupations entry: it sent the skills request only, and returned
C3_Witness ==
    \E i \in 1..Len(calls) :
        /\ calls[i].validationRead.present
        /\ calls[i].validationRead.age >= validationCacheExpiry
        /\ calls[i].skillsRead.present
        /\ calls[i].skillsRead.age >= cacheExpiry
        /\ calls[i].occupationsVia = "cache"
        /\ calls[i].requests = 1
        /\ calls[i].pc = "done"

\* C5: validateKeywords never rejects and none of its validateKeyword calls
\* throws, whatever a search call does; when it returns, there is one record
\* per keyword, in order, and a keyword none of whose searches returned
\* results is unvalidated with confidence 0.
C5_SearchFailureNeverAbortsBatch ==
    /\ batch.status # "rejected"
    /\ batch.status \in {"running", "resolved"} =>
          \A j \in 1..Len(batch.callIds) : calls[batch.callIds[j]].pc # "threw"
    /\ batch.status = "resolved" =>
          /\ Len(batch.results) = Len(batch.keywords)
          /\ \A j \in 1..Len(batch.results) :
                LET f == calls[batch.callIds[j]]
                IN  /\ batch.results[j].keyword = batch.keywords[j]
                    /\ (f.skillsVia # "ok" /\ f.occupationsVia # "ok")
                          => (~batch.results[j].isValidated
                              /\ batch.results[j].confidence = Zero)

-----------------------------------------------------------------------------
(* Claims about extractAndValidate and the scan *)

\* the scan's requests have all been answered, none with a response
AllSearchCallsFailed ==
    /\ fetches = {}
    /\ \A i \in 1..Len(calls) :
          /\ calls[i].skillsVia \in {"failed", "cache", "none"}
          /\ calls[i].occupationsVia \in {"failed", "cache", "none"}

\* no term of the scan was answered from an entry an earlier scan cached
NothingServedFromCache ==
    \A i \in 1..Len(calls) :
        /\ ~calls[i].fromValidationCache
        /\ calls[i].skillsVia # "cache"
        /\ calls[i].occupationsVia # "cache"

\* the service was called, and every call failed
ServiceUnreachable == AllSearchCallsFailed /\ netLog # <<>>

\* the scan has responded from the basic sets, with no term validated, a
\* total score and a validation rate of 0
DegradedToBasic ==
    /\ scan.jdEnhanced.validatedKeywords = scan.jdEnhanced.basicKeywords
    /\ scan.resumeEnhanced.validatedKeywords = scan.resumeEnhanced.basicKeywords
    /\ jdKeywords = scan.jdEnhanced.basicKeywords
    /\ resumeKeywords = scan.resumeEnhanced.basicKeywords
    /\ \A i \in 1..Len(calls) : calls[i].pc = "done" /\ ~calls[i].result.isValidated
    /\ scan.jdEnhanced.stats.validatedCount = 0
    /\ scan.resumeEnhanced.stats.validatedCount = 0
    /\ escoValidated = {}
    /\ scoreResult.done
    /\ scoreResult.totalScore \in 0..100
    /\ scoreResult.qualityMetrics.escoValidationRate = Zero
    /\ scan.jdEnhanced.stats.validationRate = Zero
    /\ scan.resumeEnhanced.stats.validationRate = Zero

C10_ValidatedIffAboveCallerThreshold ==
    scan.pc = "extract" /\ scan.frame.pc = "returned" =>
        \A i \in 1..Len(scan.frame.result.validationResults) :
            LET r == scan.frame.result.validationResults[i]
            IN  r.isValidated <=> QLt(scan.frame.options.escoConfidenceThreshold, r.confidence)

-----------------------------------------------------------------------------
(* Claims about termination and input errors *)

\* C11: the validation stage always terminates: once extractAndValidate has
\* been called it returns, even when a search request is never answered
C11_ValidationStageTerminates ==
    (scan.pc = "extract") ~> (scan.pc = "extract" /\ scan.frame.pc = "returned")

\* the job description is absent, empty or white space only, or the resume
\* gave no text
InvalidInput(request) ==
    \/ request.jobDescription.shape = "null"
    \/ \A i \in 1..Len(request.jobDescription.value) :
          IsSpace(request.jobDescription.value[i])
    \/ request.parseResult.text = <<>>

\* C12: a scan whose job description is empty or white space only, or whose
\* resume yields empty text, is answered with an error, has no score and no
\* matching data, and starts no extraction and no validation
C12_InvalidInputRejectedBeforeExtraction ==
    scan.pc # "idle" /\ InvalidInput(scan.request) =>
        /\ scan.pc = "rejected"
        /\ scan.status = 400
        /\ scan.error # "none"
        /\ DOMAIN scan = {"pc", "request", "status", "error"}
        /\ ~scoreResult.done
        /\ calls = <<>> /\ netLog = <<>> /\ fetches = {}
        /\ batch = NoBatch

\* a request with a file that parses to a term and a job description of
\* white space only has been rejected
C12_Witness ==
    /\ scan.pc = "rejected"
    /\ scan.request.file
    /\ scan.request.jobDescription = Str(blank)
    /\ scan.request.parseResult = ParsedDocument(TRUE, aws)
    /\ scan.error = "Job description is required"

-----------------------------------------------------------------------------
(* Claims about the category sets *)

\* a CategorySet with its five keys and no two terms of a category equal
\* after case folding
WellFormedCategorySet(keywords) ==
    /\ DOMAIN keywords = Categories
    /\ \A c \in Categories :
          \A i, j \in 1..Len(keywords[c]) :
              i # j => toLowerCase(keywords[c][i]) # toLowerCase(keywords[c][j])

\* C13: every CategorySet the pipeline produces (the basic sets of
\* categorizeKeywords and the merged validatedKeywords) has all five category
\* keys and no two terms in a category that are equal ignoring case
C13_CategorySetsFoldUnique ==
    scan.pc = "extract" /\ scan.frame.pc = "returned" =>
        /\ WellFormedCategorySet(scan.frame.result.basicKeywords)
        /\ WellFormedCategorySet(scan.frame.result.validatedKeywords)

\* the categories of a CategorySet that hold the term
categoriesHolding(keywords, term) == {c \in DOMAIN keywords : term \in Range(keywords[c])}

\* the uncategorized remainder an extraction result surfaces: the result of
\* extractAndValidate has the fields of ExtractionResult and no other
uncategorizedOf(result) ==
    IF "uncategorized" \in DOMAIN result THEN result.uncategorized ELSE <<>>

\* C14: the category matcher loses no term silently: every candidate term
\* given to categorizeKeywords is in exactly one category, or in no category
\* and in an uncategorized remainder surfaced with the result
C14_NoTermLostByCategorization ==
    scan.pc = "extract" /\ scan.frame.pc = "returned" =>
        \A i \in 1..Len(scan.frame.rawKeywords) :
            LET term    == scan.frame.rawKeywords[i]
                holding == categoriesHolding(scan.frame.result.basicKeywords, term)
            IN  /\ Cardinality(holding) <= 1
                /\ (holding = {}) <=> term \in Range(uncategorizedOf(scan.frame.result))

-----------------------------------------------------------------------------
(* SpecGroups: validateKeywords on lists long enough for several batches and
   a second group of concurrent batches.  The search cache already holds the
   answers for "aws", so the searches of most calls are answered without a
   request; the searches for "java" go to the service *)

MaxGroupTerms == 201

\* n keywords that all normalize to "aws": AWS, aws, " AWS ", AWS, ...
awsKeywords(n) ==
    [i \in 1..n |-> IF i % 3 = 1 THEN AWS ELSE IF i % 3 = 2 THEN aws ELSE awsPadded]

withJavaAt(keywords, positions) ==
    [i \in 1..Len(keywords) |-> IF i \in positions THEN Java ELSE keywords[i]]

\* one term, two batches, and two groups; with the uncached term in the
\* first group, in the second, or twice in the first
GroupInputs ==
    {awsKeywords(n) : n \in {1, batchSize + 1, MaxGroupTerms}}
    \cup UNION {{withJavaAt(awsKeywords(n), positions) :
                    positions \in {{1}, {1, 2}, {n}, {1, n}}} :
                n \in {batchSize + 1, MaxGroupTerms}}

GroupOutcomes(type) ==
    {[kind |-> "networkError"]}
    \cup {[kind |-> "ok", results |-> p] :
            p \in IF type = "skills" THEN {ArrayOf(<<SkillAws>>)}
                  ELSE {ArrayOf(<<OccupationAwsEngineer>>)}}

InitGroups ==
    /\ ScorerIdle
    /\ cache = WarmClient.cache
    /\ validationCache = WarmClient.validationCache
    /\ fetches = {}
    /\ netLog = <<>>
    /\ calls = <<>>
    /\ now = StartTime
    /\ batch = NoBatch
    /\ scan = NoScan

\* the calls whose Promise.all has resolved, in the order of the calls: their
\* continuations are in the microtask queue
ReadyCalls(frames) ==
    LET ready(id) == CallSettled(frames[id])
    IN  SelectSeq([id \in 1..Len(frames) |-> id], ready)

\* the calls ids[lo..hi] run to their return, one after the other
RECURSIVE finishCalls(_, _, _, _, _)
finishCalls(st, ids, lo, hi, t) ==
    IF lo > hi THEN st
    ELSE IF lo = hi THEN finishCall(st, ids[lo], t)
    ELSE ApplyTo(finishCalls(st, ids, lo, (lo + hi) \div 2, t),
                 LAMBDA next : finishCalls(next, ids, (lo + hi) \div 2 + 1, hi, t))

\* the event loop empties the microtask queue before it takes the next task:
\* every call that is ready runs to its return
RunMicrotasks ==
    /\ \E ids \in {ReadyCalls(calls)} :
          /\ ids # <<>>
          /\ SetClientState(finishCalls(ClientState, ids, 1, Len(ids), now))
    /\ UNCHANGED <<now, batch, scorerVars, scan>>

\* a response is handled by a new task, after the microtask queue is empty
GroupFetchRespond(r, outcome) ==
    /\ ReadyCalls(calls) = <<>>
    /\ FetchRespond(r, outcome)

\* the timer of the pause fires, at its due time or later, and the loop
\* starts the next group
PacingTimerFires(late) ==
    /\ batch.status = "delay"
    /\ \E t \in {batch.timer + late} :
          /\ now' = t
          /\ \E next \in {nextGroup(ClientState, batch, t)} :
                /\ SetClientState(next.st)
                /\ batch' = next.batch
    /\ UNCHANGED <<scorerVars, scan>>

NextGroups ==
    \/ \E keywords \in GroupInputs : ValidateKeywords(keywords)
    \/ \E r \in fetches : \E outcome \in GroupOutcomes(r.type) : GroupFetchRespond(r, outcome)
    \/ RunMicrotasks
    \/ BatchGroupSettled
    \/ \E late \in {0, 1} : PacingTimerFires(late)

SpecGroups == InitGroups /\ [][NextGroups]_vars

-----------------------------------------------------------------------------
(* SpecArrival: one extractAndValidate call against a service whose answer to
   every request is fixed beforehand; the answers arrive in any order *)

\* what the service answers to a search of a type for a text
ServiceAnswers(type) ==
    {[kind |-> "networkError"]}
    \cup {[kind |-> "ok", results |-> p] :
            p \in IF type = "skills"
                  THEN {ArrayOf(<<SkillAws>>)}
                  ELSE {ArrayOf(<<OccupationAwsEngineer>>)}}

ServiceTexts == {aws, unix}

Services ==
    [skills : [ServiceTexts -> ServiceAnswers("skills")],
     occupations : [ServiceTexts -> ServiceAnswers("occupations")]]

answerOf(service, r) ==
    IF r.type = "skills" THEN service.skills[r.text] ELSE service.occupations[r.text]

ArrivalOptions == {Options(TRUE, Q(7, 10), 25), Options(FALSE, Q(7, 10), 25)}

InitArrival ==
    /\ ScorerIdle
    /\ ClientIdle
    /\ scan = NoScan

\* extractAndValidate(text, options) to its first await, with the service
\* the requests go to
ArrivalExtract(extracted, options, service) ==
    /\ scan.pc = "idle"
    /\ \E begun \in {extractBegin(ClientState, extracted, options, now)} :
          /\ SetClientState(begun.st)
          /\ batch' = begun.batch
          /\ scan' = [pc |-> "extract", frame |-> begun.frame,
                      extracted |-> extracted, service |-> service]
    /\ UNCHANGED <<now, scorerVars>>

\* the answer to request r arrives
ServiceResponds(r) ==
    /\ scan.pc = "extract"
    /\ FetchRespond(r, answerOf(scan.service, r))

NextArrival ==
    \/ \E extracted \in Documents(ExtractTokens, MaxExtractTokens) :
          \E options \in ArrivalOptions : \E service \in Services :
              ArrivalExtract(extracted, options, service)
    \/ \E r \in fetches : ServiceResponds(r)
    \/ \E id \in 1..Len(calls) : FinishValidate(id)
    \/ BatchGroupSettled
    \/ ExtractReturn

SpecArrival == InitArrival /\ [][NextArrival]_vars

\* the requests reqs[i..] answered one after the other, in the order sent
RECURSIVE answerInOrder(_, _, _, _, _)
answerInOrder(st, reqs, i, service, t) ==
    IF i > Len(reqs) THEN st
    ELSE ApplyTo(settleFetch(st, reqs[i], answerOf(service, reqs[i]), t),
                 LAMBDA next : answerInOrder(next, reqs, i + 1, service, t))

\* the result of extractAndValidate when the answers arrive in the order of
\* the requests and the calls complete in the order they were made
resultInRequestOrder(extracted, options, service, t) ==
    ApplyTo(extractBegin(FreshClient, extracted, options, t), LAMBDA begun :
        IF begun.frame.pc = "returned" THEN begun.frame.result
        ELSE ApplyTo(answerInOrder(begun.st, begun.st.netLog, 1, service, t), LAMBDA answered :
             ApplyTo(finishCalls(answered, begun.batch.callIds, 1,
                                 Len(begun.batch.callIds), t), LAMBDA finished :
             ApplyTo(groupSettled(begun.batch, finished.calls, t), LAMBDA settled :
                 extractEnd(begun.frame, settled).result))))

-----------------------------------------------------------------------------
(* SpecMatch: validateKeyword from the two answered lists to its record *)

MaxCandidateSkills      == 2
MaxCandidateOccupations == 2

pythom      == <<112, 121, 116, 104, 111, 109>>                 \* "pythom"
pythonTitle == <<80, 121, 116, 104, 111, 110>>                  \* "Python"

\* an entry with the keyword among its alternative labels
SkillLabelled == Skill(cloudPlatforms, <<AWS, awsCloud>>, "skill", "cross-sector")
\* a transversal entry whose title is one edit away from "pythom"
SkillPython   == Skill(pythonTitle, <<>>, "skill", "transversal")
OccupationAws == Occupation(AWS, <<>>)

CandidateSkills      == {SkillAws, SkillCloud, SkillAwsDegree, SkillLabelled, SkillPython}
CandidateOccupations == {OccupationAwsEngineer, OccupationAws}

\* raw keywords: "AWS", " aws " (padded), "unix", "pythom"
MatchKeywords == {AWS, awsPadded, unix, pythom}

InitMatch ==
    /\ ScorerIdle
    /\ ClientIdle
    /\ scan = NoScan

\* validateKeyword(keyword) whose searches returned skills and occupations
ValidateAnswered(keyword, skills, occupations) ==
    /\ scan.pc = "idle"
    /\ \E result \in {buildValidationResult(keyword, trim(toLowerCase(keyword)),
                                            skills, occupations)} :
          scan' = [pc |-> "validated", keyword |-> keyword, skills |-> skills,
                   occupations |-> occupations, result |-> result]
    /\ UNCHANGED <<clientVars, scorerVars>>

NextMatch ==
    \E keyword \in MatchKeywords :
        \E skills \in ListsOver(CandidateSkills, MaxCandidateSkills) :
            \E occupations \in ListsOver(CandidateOccupations, MaxCandidateOccupations) :
                ValidateAnswered(keyword, skills, occupations)

SpecMatch == InitMatch /\ [][NextMatch]_vars

-----------------------------------------------------------------------------
(* Specification: successive calls of categorizeKeywords *)

MaxCategorizeCalls == 3
MaxCandidates == 2

pmp == <<112, 109, 112>>                                        \* "pmp"

CategorizeTokens == {aws, pmp}

\* candidate lists, which may repeat a term
CandidateLists == ListsOver(CategorizeTokens, MaxCandidates)

InitCategorize ==
    /\ ScorerIdle
    /\ ClientIdle
    /\ scan = NoScan

\* one call categorizeKeywords(keywords); the log keeps the argument and the
\* returned ExtractedKeywords of every call made so far
Categorize(keywords) ==
    /\ scan.pc \in {"idle", "categorized"}
    /\ \E log \in {IF scan.pc = "categorized" THEN scan.log ELSE <<>>} :
          /\ Len(log) < MaxCategorizeCalls
          /\ \E result \in {categorizeKeywords(keywords)} :
                scan' = [pc  |-> "categorized",
                         log |-> Append(log, [keywords |-> keywords, result |-> result])]
    /\ UNCHANGED <<clientVars, scorerVars>>

NextCategorize == \E keywords \in CandidateLists : Categorize(keywords)

SpecCategorize == InitCategorize /\ [][NextCategorize]_vars

-----------------------------------------------------------------------------
(* Specification: extractRawKeywords on documents that hold noise tokens *)

MaxRawTokens == 3

year2023     == <<50, 48, 50, 51>>                              \* "2023"
date1231     == <<49, 50, 47, 51, 49>>                          \* "12/31"
the          == <<116, 104, 101>>                               \* "the"
capitalThe   == <<84, 104, 101>>                                \* "The"
letterA      == <<97>>                                          \* "a"
emailAddress == <<97, 64, 98, 46, 99, 111>>                     \* "a@b.co"

RawTokens == {year2023, date1231, the, capitalThe, letterA, emailAddress, aws}

InitRawKeywords ==
    /\ ScorerIdle
    /\ ClientIdle
    /\ scan = NoScan

\* one call extractRawKeywords(text), for what keywordExtractor.extract made
\* of the text
ExtractRaw(extracted) ==
    /\ scan.pc \in {"idle", "raw"}
    /\ \E rawKeywords \in {extractRawKeywords(extracted)} :
          scan' = [pc |-> "raw", extracted |-> extracted, rawKeywords |-> rawKeywords]
    /\ UNCHANGED <<clientVars, scorerVars>>

NextRawKeywords == \E extracted \in Documents(RawTokens, MaxRawTokens) : ExtractRaw(extracted)

SpecRawKeywords == InitRawKeywords /\ [][NextRawKeywords]_vars

-----------------------------------------------------------------------------
(* Claims about categorizeKeywords called repeatedly (C15) *)

-----------------------------------------------------------------------------
(* Claims about the noise filter (C16) *)

\* the noise the candidate output is to be free of: a pure-digit token, a
\* date-like token, a stop word, a single letter, an e-mail address
IsNoiseToken(term) ==
    \/ Len(term) > 0 /\ AllDigits(term)
    \/ DigitGroups(term, 1..2, {47}, 1..2)
    \/ toLowerCase(term) \in INVALID_STOP_WORDS
    \/ Len(term) = 1 /\ IsLetter(term[1])
    \/ EmailLike(term)

\* C16: no candidate term output by extractRawKeywords is a pure-digit token,
\* a date-like token, a stop word, a single letter or an e-mail address
C16_NoNoiseInCandidates ==
    scan.pc = "raw" =>
        \A i \in 1..Len(scan.rawKeywords) : ~IsNoiseToken(scan.rawKeywords[i])

-----------------------------------------------------------------------------
(* Claims about failures inside the validation stage (C17) *)

\* a result that mergeESCOResults merges into a category ExtractedKeywords
\* does not have
MergeThrows ==
    /\ batch.status = "resolved"
    /\ \E i \in 1..Len(batch.results) :
          /\ batch.results[i].isValidated
          /\ QLe(scan.frame.options.escoConfidenceThreshold, batch.results[i].confidence)
          /\ batch.results[i].category \notin Categories

\* validateKeywords has rejected, or merging its results throws
ValidationStageFailed == batch.status = "rejected" \/ MergeThrows

\* C17: a failure inside the validation stage of extractAndValidate degrades
\* to basic categorization: the call returns, validatedKeywords equals
\* basicKeywords category by category, and validationResults is empty
C17_ValidationFailureDegradesToBasic ==
    scan.pc = "extract" /\ ValidationStageFailed =>
        /\ scan.frame.pc \in {"validating", "returned"}
        /\ scan.frame.pc = "returned" =>
              /\ scan.frame.caught
              /\ \A c \in Categories :
                    scan.frame.result.validatedKeywords[c] = scan.frame.result.basicKeywords[c]
              /\ scan.frame.result.validationResults = <<>>

\* extractAndValidate has returned the basic keywords after the merge threw
\* on a validated "education" result
C17_Witness ==
    /\ scan.pc = "extract"
    /\ scan.frame.pc = "returned"
    /\ MergeThrows
    /\ scan.frame.result.basicKeywords.hardSkills # <<>>
    /\ scan.frame.result.validatedKeywords = scan.frame.result.basicKeywords
    /\ scan.frame.result.validationResults = <<>>

\* extractAndValidate has returned the basic keywords after validateKeywords
\* rejected
C17_WitnessRejected ==
    /\ scan.pc = "extract"
    /\ scan.frame.pc = "returned"
    /\ batch.status = "rejected"
    /\ scan.frame.result.validatedKeywords = scan.frame.result.basicKeywords

-----------------------------------------------------------------------------
(* Claims about the order of validateKeyword's cache accesses (C18) *)

\* a step that starts a validateKeyword call on a term whose validation
\* record is younger than 1h returns that record at once and enters neither
\* searchSkills nor searchOccupations
HitReturnsImmediately ==
    Len(calls') = Len(calls) + 1 =>
        LET f    == calls'[Len(calls')]
            vkey == validationCacheKey(f.normalizedKeyword)
        IN  Fresh(validationCache, vkey, validationCacheExpiry) =>
                /\ f.pc = "done"
                /\ f.result = StoredRecord(validationCache[vkey])
                /\ f.skillsVia = "none"
                /\ f.occupationsVia = "none"
                /\ netLog' = netLog

\* a step in which a validateKeyword call completes its validation leaves the
\* returned record in the validation cache, stamped with the current time
CompletedValidationIsWritten ==
    \A id \in 1..Len(calls) :
        calls[id].pc = "awaiting" /\ calls'[id].pc = "done" =>
            LET vkey == validationCacheKey(calls[id].normalizedKeyword)
            IN  /\ vkey \in DOMAIN validationCache'
                /\ StoredRecord(validationCache'[vkey]) = calls'[id].result
                /\ validationCache'[vkey].timestamp = now

\* C18: validateKeyword checks the validation cache first: a record of the
\* normalized term written less than 1h ago is returned immediately, without
\* invoking searchSkills or searchOccupations; and every completed validation
\* writes its record to the validation cache before returning
C18_ValidationCacheFirst ==
    [][HitReturnsImmediately /\ CompletedValidationIsWritten]_vars

-----------------------------------------------------------------------------
(* Claims about validateKeywords over batches and groups (C19, C20) *)

\* C19: validateKeywords returns exactly one ValidationRecord per input term,
\* in the order of the input list (result[i].keyword = keywords[i]), whatever
\* the length of the list and the order in which the calls completed
C19_OneRecordPerTermInOrder ==
    batch.status = "resolved" =>
        /\ Len(batch.results) = Len(batch.keywords)
        /\ \A i \in 1..Len(batch.keywords) : batch.results[i].keyword = batch.keywords[i]

\* validateKeywords has returned for a list of two groups whose first two
\* terms went to the service, the second answered before the first, and both
\* after the later calls of their group had completed
C19_Witness ==
    /\ batch.status = "resolved"
    /\ Len(batch.keywords) = MaxGroupTerms
    /\ Len(batch.batches) > maxConcurrentBatches
    /\ batch.keywords[1] = Java
    /\ batch.keywords[2] = Java
    /\ Len(netLog) = 4
    /\ calls[1].skillsVia = "failed"
    /\ calls[2].skillsVia # "failed"
    /\ batch.results[3].keyword = awsPadded
    /\ batch.results[MaxGroupTerms].keyword = batch.keywords[MaxGroupTerms]

InFlight(frames) == {id \in 1..Len(frames) : frames[id].pc = "awaiting"}

\* C20: during validateKeywords at most 10 batches of at most 20 terms are in
\* flight; a call of the next group starts only in a step taken from the
\* pause, when every call made so far has completed and the pacing timer is
\* due; and the pause is entered only while batches remain and always ends
\* with the start of another group, so there is none after the last group
C20_GroupsPaced ==
    [][ /\ Cardinality(InFlight(calls')) <= maxConcurrentBatches * batchSize
        /\ batch'.status # "idle" =>
              \A k \in 1..Len(batch'.batches) : Len(batch'.batches[k]) <= batchSize
        /\ batch'.status = "running" =>
              /\ InFlight(calls') \subseteq Range(batch'.callIds)
              /\ Len(batch'.callIds) =
                    Len(flat(SubSeq(batch'.batches, batch'.i + 1,
                                    Min2(batch'.i + maxConcurrentBatches, Len(batch'.batches)))))
        /\ (batch.status # "idle" /\ Len(calls') > Len(calls)) =>
              /\ batch.status = "delay"
              /\ \A id \in 1..Len(calls) : calls[id].pc = "done"
              /\ now' >= batch.timer
        /\ (batch.status # "delay" /\ batch'.status = "delay") =>
              /\ batch'.timer = now + pacingDelay
              /\ Len(batch'.results) < Len(batch'.keywords)
        /\ batch.status = "delay" =>
              /\ batch'.status = "running"
              /\ Len(calls') > Len(calls)
      ]_vars

\* the second group is in flight: its call was started after the pause, with
\* the 200 calls of the first group completed
C20_Witness ==
    /\ batch.status = "running"
    /\ batch.i = maxConcurrentBatches
    /\ Len(calls) = MaxGroupTerms
    /\ InFlight(calls) = {MaxGroupTerms}
    /\ calls[MaxGroupTerms].keyword = Java
    /\ calls[MaxGroupTerms].requests = 2
    /\ now >= StartTime + pacingDelay
    /\ Len(batch.results) = maxConcurrentBatches * batchSize

-----------------------------------------------------------------------------
(* Claims about the arrival order of the responses (C21) *)

\* C21: for fixed service responses the validated CategorySet of a document
\* is the same for every arrival order of the concurrent validation
\* responses: it is the one obtained when the answers arrive in the order of
\* the requests
C21_ValidatedSetIndependentOfArrival ==
    scan.pc = "extract" /\ scan.frame.pc = "returned" =>
        \E inOrder \in {resultInRequestOrder(scan.extracted, scan.frame.options,
                                              scan.service, StartTime)} :
            \A c \in Categories :
                scan.frame.result.validatedKeywords[c] = inOrder.validatedKeywords[c]

\* extractAndValidate has returned for two terms whose four requests were
\* answered concurrently, with different answers to the two skill searches,
\* and the merge changed a category
C21_Witness ==
    /\ scan.pc = "extract"
    /\ scan.frame.pc = "returned"
    /\ Len(scan.frame.keywordsToValidate) = 2
    /\ Len(netLog) = 4
    /\ scan.service.skills[aws] # scan.service.skills[unix]
    /\ scan.frame.result.validatedKeywords # scan.frame.result.basicKeywords
    /\ Len(scan.frame.result.validationResults) = 2

-----------------------------------------------------------------------------
(* Claims about concurrent calls for one term (C22) *)

SameTerm(i, j) == calls[i].normalizedKeyword = calls[j].normalizedKeyword

\* every entry of the two caches is a value one of the calls wrote: a search
\* entry is the list a call received, a validation entry the record a call
\* returned
EntriesWrittenByCalls ==
    /\ \A key \in DOMAIN cache :
          \E i \in 1..Len(calls) :
              /\ key = searchCacheKey(key[1], calls[i].normalizedKeyword, 3, DEFAULT_LANGUAGE)
              /\ cache[key].data = valueOf(calls[i], key[1])
    /\ \A key \in DOMAIN validationCache :
          \E i \in 1..Len(calls) :
              /\ key = validationCacheKey(calls[i].normalizedKeyword)
              /\ StoredRecord(validationCache[key]) = calls[i].result

\* the calls for one normalized term return equal records
SameTermSameRecord ==
    \A i, j \in 1..Len(calls) : SameTerm(i, j) => calls[i].result = calls[j].result

\* C22: concurrent validateKeyword calls for the same normalized term leave
\* no lost update or corrupt entry in either cache: when all of them have
\* finished, every cache entry is the value written by one of the calls, and
\* all the calls for the term have returned equal records
C22_ConcurrentSameTermConsistent ==
    batch.status = "resolved" => EntriesWrittenByCalls /\ SameTermSameRecord

-----------------------------------------------------------------------------
(* Claims about the record validateKeyword builds (C23) *)

\* the candidates of the answered call, skills first, and the confidence of
\* each for the normalized keyword
Candidates == scan.skills \o scan.occupations

confidenceOf(candidate) ==
    calculateMatchConfidence(trim(toLowerCase(scan.keyword)), candidate.title,
                             candidate.alternativeLabels)

IsMaxConfidence(x) ==
    /\ \A i \in 1..Len(Candidates) : QLe(confidenceOf(Candidates[i]), x)
    /\ \/ \E i \in 1..Len(Candidates) : confidenceOf(Candidates[i]) = x
       \/ Candidates = <<>> /\ x = Zero

AttainsMax(match) ==
    /\ match \in Range(Candidates)
    /\ confidenceOf(match) = scan.result.confidence

\* C23 as stated: the confidence of the record is the maximum match
\* confidence over all candidates (0 without candidates), escoMatch is a
\* candidate attaining it, and the category is jobTitles whenever escoMatch
\* is an occupation
C23_BestMatchAttainsMaximum ==
    scan.pc = "validated" =>
        /\ IsMaxConfidence(scan.result.confidence)
        /\ Candidates # <<>> => AttainsMax(scan.result.escoMatch)
        /\ (scan.result.escoMatch # Undefined /\ scan.result.escoMatch.kind = "occupation")
              => scan.result.category = "jobTitles"

\* C23, amended: the confidence of the record is the maximum match confidence
\* over all candidates (0 without candidates); when it is above 0, escoMatch
\* is a candidate attaining it, and the category is jobTitles whenever it is
\* an occupation; when it is 0, there is no escoMatch and the category is
\* hardSkills
C23_BestMatchAboveZero ==
    scan.pc = "validated" =>
        /\ IsMaxConfidence(scan.result.confidence)
        /\ IF QLt(Zero, scan.result.confidence)
           THEN /\ AttainsMax(scan.result.escoMatch)
                /\ scan.result.escoMatch.kind = "occupation"
                      => scan.result.category = "jobTitles"
           ELSE /\ scan.result.escoMatch = Undefined
                /\ scan.result.category = "hardSkills"

\* an occupation beats a weaker skill: "AWS" against the skill "cloud
\* platforms" (0.7 by a label) and the occupation "AWS" (1.0)
C23_Witness ==
    /\ scan.pc = "validated"
    /\ scan.keyword = AWS
    /\ scan.skills = <<SkillCloud, SkillAwsDegree>>
    /\ scan.occupations = <<OccupationAwsEngineer, OccupationAws>>
    /\ scan.result.escoMatch = OccupationAws
    /\ scan.result.confidence = One
    /\ scan.result.category = "jobTitles"

-----------------------------------------------------------------------------
(* Claims about the category of a record (C24) *)

\* C24: the category of every ValidationRecord is one of the five keys of
\* ExtractedKeywords, whatever skill metadata the service returned, so that
\* merging the record addresses a category the CategorySet has
C24_RecordCategoryIsKey ==
    scan.pc = "validated" =>
        /\ scan.result.category \in Categories
        /\ ~mergeESCOResults([c \in Categories |-> <<>>], <<scan.result>>, Q(7, 10)).threw

-----------------------------------------------------------------------------
(* Claims about the suggestions of a record (C25) *)

\* the titles and the alternative labels of the candidates
CandidateNames ==
    {Candidates[i].title : i \in 1..Len(Candidates)}
    \cup UNION {Range(Candidates[i].alternativeLabels) : i \in 1..Len(Candidates)}

\* C25: a ValidationRecord carries at most 3 suggestions, each a title or an
\* alternative label of a returned candidate, and none of them is the term
\* (lower-cased and trimmed, as validateKeyword looks it up) in any case
C25_SuggestionsBounded ==
    scan.pc = "validated" =>
        /\ Len(scan.result.suggestions) <= 3
        /\ \A i \in 1..Len(scan.result.suggestions) :
              /\ scan.result.suggestions[i] \in CandidateNames
              /\ toLowerCase(scan.result.suggestions[i]) # trim(toLowerCase(scan.keyword))

\* " aws " against two skills and two occupations with six names: the label
\* "AWS" and the occupation title "AWS" are left out, three names are kept
C25_Witness ==
    /\ scan.pc = "validated"
    /\ scan.keyword = awsPadded
    /\ scan.skills = <<SkillLabelled, SkillAwsDegree>>
    /\ scan.occupations = <<OccupationAws, OccupationAwsEngineer>>
    /\ scan.result.suggestions = <<cloudPlatforms, awsCloud, awsDegree>>

-----------------------------------------------------------------------------
(* Claims about the confidence of a record (C29) *)

\* the keyword is the title or an alternative label of the match in some
\* case, or the title contains the keyword, or the keyword contains the title
ExactOrTitleSubstring(match) ==
    LET k     == trim(toLowerCase(scan.keyword))
        title == toLowerCase(match.title)
    IN  \/ title = k
        \/ \E i \in 1..Len(match.alternativeLabels) : toLowerCase(match.alternativeLabels[i]) = k
        \/ includes(title, k)
        \/ includes(k, title)

\* C29: every confidence produced by validateKeyword lies in [0, 1], and a
\* record is validated only if its best match is an exact title match, an
\* exact alternative-label match or a substring containment against the
\* title: a label substring match or a fuzzy match never validates a term
C29_ValidatedOnlyByStrongMatch ==
    scan.pc = "validated" =>
        /\ QLe(Zero, scan.result.confidence)
        /\ QLe(scan.result.confidence, One)
        /\ scan.result.isValidated =>
              /\ scan.result.escoMatch # Undefined
              /\ ExactOrTitleSubstring(scan.result.escoMatch)

\* "AWS" with a label substring match only (0.7), and "pythom" with a fuzzy
\* match only (0.5): neither is validated
C29_Witness ==
    /\ scan.pc = "validated"
    /\ scan.occupations = <<>>
    /\ ~scan.result.isValidated
    /\ \/ scan.keyword = AWS /\ scan.skills = <<SkillCloud>>
             /\ scan.result.confidence = Q(7, 10)
       \/ scan.keyword = pythom /\ scan.skills = <<SkillPython>>
             /\ scan.result.confidence = Q(1, 2)

-----------------------------------------------------------------------------
(* SpecRanker: extractAndValidate calls of concurrent requests on the
   singleton extractor, each up to its await of validateKeywords.  The log
   keeps, for every call, the list the ranker was given, what it returned and
   the validateKeyword calls started for the document *)

MaxRankerCalls  == 2
MaxRankerTokens == 3

perl == <<112, 101, 114, 108>>   \* "perl"

\* the tokens of a text: two terms of equal priority, a token that
\* extractRawKeywords lets through and isHighQualityKeyword removes, and a
\* platform name
RankerText == <<unix, emailAddress, perl, aws>>

\* what keywordExtractor.extract gives for the texts made of at most
\* MaxRankerTokens words of RankerText, in the order of the text
\* (extractRawKeywords sorts the tokens, so other orders give the same lists)
RankerDocuments ==
    {Extracted(l) : l \in {k \in ListsOver(Range(RankerText), MaxRankerTokens) :
                              \A i, j \in 1..Len(k) :
                                  i < j => indexOf(RankerText, k[i]) < indexOf(RankerText, k[j])}}

\* maxKeywordsToValidate below the number of tokens
RankerOptions == {Options(TRUE, Q(7, 10), maxCount) : maxCount \in {1, 2}}

InitRanker ==
    /\ ScorerIdle
    /\ ClientIdle
    /\ scan = [pc |-> "ranking", log |-> <<>>]

\* extractAndValidate(text, options) to its await of validateKeywords
RankAndSubmit(extracted, options) ==
    /\ scan.pc = "ranking"
    /\ Len(scan.log) < MaxRankerCalls
    /\ \E begun \in {extractBegin(ClientState, extracted, options, now)} :
          /\ SetClientState(begun.st)
          /\ batch' = begun.batch
          /\ scan' = [scan EXCEPT !.log =
                         Append(@, [rawKeywords |-> begun.frame.rawKeywords,
                                    maxCount |-> options.maxKeywordsToValidate,
                                    keywordsToValidate |-> begun.frame.keywordsToValidate,
                                    callIds |-> {id \in 1..Len(begun.st.calls) :
                                                    id > Len(calls)}])]
    /\ UNCHANGED <<now, scorerVars>>

NextRanker ==
    \E extracted \in RankerDocuments :
        \E options \in RankerOptions : RankAndSubmit(extracted, options)

SpecRanker == InitRanker /\ [][NextRanker]_vars

-----------------------------------------------------------------------------
(* Claims about the priority ranker (C26) *)

\* the list returned for a log entry is ordered by non-increasing score, and
\* terms of equal score stand in the order of the input
RankedByScore(entry) ==
    LET out == entry.keywordsToValidate
        scoreOf(k) == calculateSmartPriority(k, entry.rawKeywords)
    IN  \A i, j \in 1..Len(out) :
            i < j =>
                /\ QLe(scoreOf(out[j]), scoreOf(out[i]))
                /\ scoreOf(out[i]) = scoreOf(out[j]) =>
                      indexOf(entry.rawKeywords, out[i]) < indexOf(entry.rawKeywords, out[j])

\* C26: the priority ranker returns at most maxKeywordsToValidate terms, all
\* taken from its input, ordered by non-increasing priority score with ties
\* in input order; the same input gives the same list; and the
\* validateKeyword calls started for a document are those of the returned
\* list, never more than maxKeywordsToValidate
C26_RankerBoundedOrderedDeterministic ==
    scan.pc = "ranking" =>
        /\ \A e \in 1..Len(scan.log) :
              LET entry == scan.log[e]
              IN  /\ Len(entry.keywordsToValidate) <= entry.maxCount
                  /\ Range(entry.keywordsToValidate) \subseteq Range(entry.rawKeywords)
                  /\ RankedByScore(entry)
                  /\ Cardinality(entry.callIds) <= entry.maxCount
                  /\ {calls[id].keyword : id \in entry.callIds}
                        = Range(entry.keywordsToValidate)
        /\ \A e, f \in 1..Len(scan.log) :
              /\ scan.log[e].rawKeywords = scan.log[f].rawKeywords
              /\ scan.log[e].maxCount = scan.log[f].maxCount
              => scan.log[e].keywordsToValidate = scan.log[f].keywordsToValidate

\* four candidates, one of them noise, ranked for two terms twice: "AWS"
\* first, then "perl", which ties with "unix" and stands before it in the
\* input; two calls started for each document
C26_Witness ==
    /\ scan.pc = "ranking"
    /\ Len(scan.log) = 2
    /\ \A e \in 1..2 :
          /\ Len(scan.log[e].rawKeywords) = 3
          /\ {perl, unix} \subseteq Range(scan.log[e].rawKeywords)
          /\ scan.log[e].maxCount = 2
          /\ Len(scan.log[e].keywordsToValidate) = 2
          /\ scan.log[e].keywordsToValidate[2] = perl
          /\ Cardinality(scan.log[e].callIds) = 2
    /\ calculateSmartPriority(perl, scan.log[1].rawKeywords)
          = calculateSmartPriority(unix, scan.log[1].rawKeywords)

-----------------------------------------------------------------------------
(* SpecCompound: one call of extractRawKeywords on a text whose words are
   parts of compound terms *)

MaxCompoundTokens == 3

front          == <<102, 114, 111, 110, 116>>   \* "front"
back           == <<98, 97, 99, 107>>   \* "back"
endToken       == <<101, 110, 100>>   \* "end"
user           == <<117, 115, 101, 114>>   \* "user"
experience     == <<101, 120, 112, 101, 114, 105, 101, 110, 99, 101>>   \* "experience"
interface      == <<105, 110, 116, 101, 114, 102, 97, 99, 101>>   \* "interface"
frontEnd       == <<102, 114, 111, 110, 116, 45, 101, 110, 100>>   \* "front-end"
backEnd        == <<98, 97, 99, 107, 45, 101, 110, 100>>   \* "back-end"
userExperience == <<117, 115, 101, 114, 45, 101, 120, 112, 101, 114, 105, 101, 110, 99, 101>>   \* "user-experience"

\* parts of the compounds front-end, back-end, user-experience and
\* user-interface: "end" and "user" are each a part of two of them
CompoundTokens == {front, back, endToken, user, experience, interface}

InitCompound ==
    /\ ScorerIdle
    /\ ClientIdle
    /\ scan = NoScan

\* one call extractRawKeywords(text); standardized is the local of that name
ExtractCompounds(extracted) ==
    /\ scan.pc = "idle"
    /\ \E rawKeywords \in {extractRawKeywords(extracted)} :
          scan' = [pc |-> "merged", extracted |-> extracted,
                   standardized |-> standardizedKeywords(extracted.tokens),
                   rawKeywords |-> rawKeywords]
    /\ UNCHANGED <<clientVars, scorerVars>>

NextCompound ==
    \E extracted \in Documents(CompoundTokens, MaxCompoundTokens) : ExtractCompounds(extracted)

SpecCompound == InitCompound /\ [][NextCompound]_vars

-----------------------------------------------------------------------------
(* Claims about compound merging (C27) *)

\* the parts of the e-th known compound, as a set
PartsOf(e) == Range(toLowerCaseAll(COMPOUND_WORDS[e][2]))

\* the known compounds, in any spelling, made of the parts of the e-th
SpellingsOf(e) ==
    {COMPOUND_WORDS[f][1] : f \in {g \in 1..Len(COMPOUND_WORDS) : PartsOf(g) = PartsOf(e)}}

\* C27: for every known compound whose parts are all present as separate
\* tokens after alias standardization, the output of extractRawKeywords
\* contains the compound (in one of its spellings) and none of its parts,
\* also when two compounds share a part; and the output has no token that is
\* neither a standardized token nor a known compound
C27_EveryCompoundMerged ==
    scan.pc = "merged" /\ ~scan.extracted.threw =>
        LET present == Range(toLowerCaseAll(scan.standardized))
            output  == Range(scan.rawKeywords)
        IN  /\ \A e \in 1..Len(COMPOUND_WORDS) :
                  PartsOf(e) \subseteq present =>
                      /\ SpellingsOf(e) \cap output # {}
                      /\ PartsOf(e) \cap Range(toLowerCaseAll(scan.rawKeywords)) = {}
            /\ \A k \in output :
                  \/ k \in Range(scan.standardized)
                  \/ \E e \in 1..Len(COMPOUND_WORDS) : k = COMPOUND_WORDS[e][1]

-----------------------------------------------------------------------------
(* Claims about failed searches and the search cache (C28) *)

otherType(type) == IF type = "skills" THEN "occupations" ELSE "skills"

\* the step is the return of the search of request r
SearchReturns(r) == r \in fetches /\ r \notin fetches'

\* the search cache holds the same for the key in both states of the step
SameEntry(key) ==
    IF key \in DOMAIN cache THEN key \in DOMAIN cache' /\ cache'[key] = cache[key]
    ELSE key \notin DOMAIN cache'

\* a search that returns leaves the cache as it was when it failed, and
\* stores its results under the key of its own type only when it succeeded
FailedSearchStoresNothing ==
    \A r \in fetches :
        SearchReturns(r) =>
            LET key   == searchCacheKey(r.type, r.text, 3, DEFAULT_LANGUAGE)
                other == searchCacheKey(otherType(r.type), r.text, 3, DEFAULT_LANGUAGE)
                via   == viaOf(calls'[r.call], r.type)
            IN  /\ via = "failed" => cache' = cache
                /\ via # "failed" =>
                      /\ key \in DOMAIN cache'
                      /\ cache'[key].data = valueOf(calls'[r.call], r.type)
                      /\ DOMAIN cache' = DOMAIN cache \cup {key}
                /\ key # other
                /\ SameEntry(other)

\* a call that follows a call of the same normalized keyword with a failed
\* search sends the request of that search again
FailedSearchAskedAgain ==
    (Len(calls) > 0 /\ Len(calls') = Len(calls) + 1) =>
        LET before == calls[Len(calls)]
            id     == Len(calls')
            f      == calls'[id]
        IN  \A type \in {"skills", "occupations"} :
                (/\ viaOf(before, type) = "failed"
                 /\ f.normalizedKeyword = before.normalizedKeyword
                 /\ ~f.fromValidationCache)
                => /\ viaOf(f, type) = "pending"
                   /\ Request(id, type, f.normalizedKeyword) \in fetches'

\* C28: a search that fails (a response that is not OK, or a thrown error)
\* leaves the search cache unchanged, only successful responses are stored,
\* the next search with the same query, type, limit and language sends a new
\* request, and a skills search and an occupations search for one query
\* never write the entry of the other
C28_FailedSearchNotCached ==
    [][FailedSearchStoresNothing /\ FailedSearchAskedAgain]_vars

\* the skills search of the first call failed and its occupations search
\* was stored; the second call, on the same keyword, has sent the skills
\* request again and has its occupations from the cache
C28_Witness ==
    /\ Len(calls) = 2
    /\ calls[1].skillsVia = "failed"
    /\ calls[1].occupationsVia = "ok"
    /\ calls[2].normalizedKeyword = calls[1].normalizedKeyword
    /\ calls[2].occupationsVia = "cache"
    /\ Request(2, "skills", calls[2].normalizedKeyword) \in fetches
    /\ searchCacheKey("skills", calls[2].normalizedKeyword, 3, DEFAULT_LANGUAGE)
          \notin DOMAIN cache

-----------------------------------------------------------------------------
(* Claims about what merging adds (C30) *)

\* result is merged, and term is what the merge takes from it: its keyword,
\* the title of its match above 0.8, one of its first two suggestions above
\* 0.9
TakenFrom(term, result, confidenceThreshold) ==
    /\ result.isValidated
    /\ QLe(confidenceThreshold, result.confidence)
    /\ \/ term = result.keyword
       \/ /\ result.escoMatch # Undefined
          /\ QLt(Q(8, 10), result.confidence)
          /\ term = result.escoMatch.title
       \/ /\ QLt(Q(9, 10), result.confidence)
          /\ \E s \in 1..Min2(2, Len(result.suggestions)) : term = result.suggestions[s]

\* C30: merging validation results only adds terms: in every category every
\* term of basicKeywords is in validatedKeywords, and a term of
\* validatedKeywords that is not in basicKeywords is the keyword, the matched
\* title (confidence above 0.8) or one of the first two suggestions
\* (confidence above 0.9) of a validated record at or above the threshold
C30_MergeOnlyAdds ==
    (scan.pc = "extract" /\ scan.frame.pc = "returned") =>
        LET result == scan.frame.result
        IN  \A c \in Categories :
                /\ Range(result.basicKeywords[c]) \subseteq Range(result.validatedKeywords[c])
                /\ \A term \in Range(result.validatedKeywords[c]) \ Range(result.basicKeywords[c]) :
                      \E i \in 1..Len(result.validationResults) :
                          TakenFrom(term, result.validationResults[i],
                                    scan.frame.options.escoConfidenceThreshold)

\* "AWS" validated against the skill titled "aws" with confidence 1: the
\* basic term is kept, the title and the suggestion "aws engineer" are added
C30_Witness ==
    /\ scan.pc = "extract"
    /\ scan.frame.pc = "returned"
    /\ ~scan.frame.caught
    /\ scan.frame.result.basicKeywords.hardSkills = <<AWS>>
    /\ {AWS, aws, awsEngineer} \subseteq Range(scan.frame.result.validatedKeywords.hardSkills)
    /\ \E i \in 1..Len(scan.frame.result.validationResults) :
          /\ scan.frame.result.validationResults[i].isValidated
          /\ scan.frame.result.validationResults[i].confidence = One

=============================================================================
